---- MODULE Spec2Model ----
(***************************************************************************)
(* A model of chatgpt-export-explorer: the Dexie-backed store manager       *)
(* (database.js), the localStorage import registry (export-manager.js) and  *)
(* the ingestion orchestrator ChatGPTExplorer.processFiles (main.js).       *)
(*                                                                          *)
(* Strings are sequences of one-character strings, so that substring, join *)
(* and trim are computed as JavaScript computes them.  An optional JSON     *)
(* field is None (absent, JavaScript undefined) or Some(v).                 *)
(***************************************************************************)
EXTENDS Integers, Sequences, FiniteSets, TLC

VARIABLES
    db,                 \* IndexedDB: database name -> its two tables and key generators
    dbCache,            \* database.js dbCache: database name -> "none", "open" or "closed"
    ops,                \* dbOperations calls made through the API, one slot per call
    done,               \* history: the latest storeConversations call that completed
    twice,              \* history: a storeConversations call that repeated the previous one
    input,              \* the batch and limit handed to the single call of SpecFlatten
    registry,           \* localStorage['chatgpt-export-registry']
    activeExports,      \* ChatGPTExplorer.activeExports
    isProcessingFiles,  \* ChatGPTExplorer.isProcessingFiles
    calls,              \* processFiles invocations, one slot per invocation
    trail,              \* history: what each file occurrence of a batch did
    zip,                \* the extractConversationsJson call: its archive, position and locals
    search,             \* the search call: its arguments, position, reads and result
    thisConversations,  \* ChatGPTExplorer.conversations (this.conversations), the list shown
    session             \* the call of the explorer or the registry in progress, and what it left

vars == <<db, dbCache, ops, done, twice, input, registry, activeExports, isProcessingFiles, calls, trail,
          zip, search, thisConversations, session>>

(***************************************************************************)
(* JavaScript values                                                        *)
(***************************************************************************)
None == <<>>
Some(v) == <<v>>

\* x || 0 for an optional number
OrZero(x) == IF x = None THEN 0 ELSE x[1]

\* a > b on optional numbers: a comparison with undefined is false
JsGreater(a, b) == a # None /\ b # None /\ a[1] > b[1]

S(str) == <<str>>

Whitespace == {" ", "\n", "\t"}

\* String.prototype.trim() leaves a non-empty string
TrimNonEmpty(s) == \E i \in 1..Len(s) : s[i] \notin Whitespace

\* s.substring(0, n)
Substring0(s, n) == SubSeq(s, 1, IF n < Len(s) THEN n ELSE Len(s))

RECURSIVE Join(_, _)
\* parts.join(sep)
Join(parts, sep) ==
    IF parts = <<>> THEN <<>>
    ELSE IF Len(parts) = 1 THEN parts[1]
    ELSE parts[1] \o sep \o Join(Tail(parts), sep)

(***************************************************************************)
(* database.js: storeConversations, the in-memory deduplication             *)
(***************************************************************************)
DEFAULT_MAX_CONTENT_LENGTH == 52428800

TruncationMarker ==
    <<"\n", "\n", ".", ".", ".", "[", "c", "o", "n", "t", "e", "n", "t", " ",
      "t", "r", "u", "n", "c", "a", "t", "e", "d", " ", "d", "u", "e", " ",
      "t", "o", " ", "s", "i", "z", "e", " ", "l", "i", "m", "i", "t", "]">>

\* limits.MAX_CONTENT_LENGTH || DEFAULT_MAX_CONTENT_LENGTH
MaxContentLength(limit) ==
    IF limit = None \/ limit[1] = 0 THEN DEFAULT_MAX_CONTENT_LENGTH ELSE limit[1]

\* NodeContent with the test content.length >= MAX_CONTENT_LENGTH
NodeContent_CutAtLimit(parts, limit) ==
    LET content == Join(parts, S("\n"))
        max == MaxContentLength(limit)
    IN  IF Len(content) >= max
        THEN Substring0(content, max) \o TruncationMarker
        ELSE content

\* the content of a node that has message.content.parts, truncated if necessary
NodeContent(parts, limit) ==
    LET content == Join(parts, S("\n"))
        max == MaxContentLength(limit)
    IN  IF Len(content) > max
        THEN Substring0(content, max) \o TruncationMarker
        ELSE content

ConversationRecord(conv) ==
    [conversation_id |-> conv.id, title |-> conv.title,
     create_time |-> conv.create_time, update_time |-> conv.update_time]

\* conversationMap after conv has been visited; a Map keeps the position of a key
\* that is set again
PutConversation(cmap, conv) ==
    LET hit == {i \in 1..Len(cmap) : cmap[i].conversation_id = conv.id}
    IN  IF hit # {}
        THEN LET i == CHOOSE i \in hit : TRUE
             IN  IF JsGreater(conv.update_time, cmap[i].update_time)
                 THEN [cmap EXCEPT ![i] = ConversationRecord(conv)]
                 ELSE cmap
        ELSE Append(cmap, ConversationRecord(conv))

MessageRecord(convId, node, content) ==
    [conversation_id |-> convId, message_id |-> node.id,
     role |-> node.message[1].author[1], content |-> content,
     create_time |-> node.message[1].create_time, parent_id |-> node.parent]

\* PutMessage comparing create_time as the conversations' update_time is compared,
\* without || 0
PutMessage_NoOrZero(acc, convId, node, limit) ==
    IF ~acc.ok \/ node.message = None \/ node.message[1].parts = None
    THEN acc
    ELSE LET content == NodeContent(node.message[1].parts[1], limit)
             hit == {i \in 1..Len(acc.map) :
                        /\ acc.map[i].conversation_id = convId
                        /\ acc.map[i].message_id = node.id}
         IN  IF ~TrimNonEmpty(content) THEN acc
             ELSE IF hit # {}
             THEN LET i == CHOOSE i \in hit : TRUE
                  IN  IF JsGreater(node.message[1].create_time, acc.map[i].create_time)
                      THEN IF node.message[1].author = None
                           THEN [acc EXCEPT !.ok = FALSE]
                           ELSE [acc EXCEPT !.map[i] = MessageRecord(convId, node, content)]
                      ELSE acc
             ELSE IF node.message[1].author = None
                  THEN [acc EXCEPT !.ok = FALSE]
                  ELSE [acc EXCEPT !.map = Append(@, MessageRecord(convId, node, content))]

\* messageMap after one node has been visited.  acc.ok is FALSE once the
\* forEach callback has thrown (node.message.author is undefined).
PutMessage(acc, convId, node, limit) ==
    IF ~acc.ok \/ node.message = None \/ node.message[1].parts = None
    THEN acc
    ELSE LET content == NodeContent(node.message[1].parts[1], limit)
             hit == {i \in 1..Len(acc.map) :
                        /\ acc.map[i].conversation_id = convId
                        /\ acc.map[i].message_id = node.id}
         IN  IF ~TrimNonEmpty(content) THEN acc
             ELSE IF hit # {}
             THEN LET i == CHOOSE i \in hit : TRUE
                  IN  IF OrZero(node.message[1].create_time) > OrZero(acc.map[i].create_time)
                      THEN IF node.message[1].author = None
                           THEN [acc EXCEPT !.ok = FALSE]
                           ELSE [acc EXCEPT !.map[i] = MessageRecord(convId, node, content)]
                      ELSE acc
             ELSE IF node.message[1].author = None
                  THEN [acc EXCEPT !.ok = FALSE]
                  ELSE [acc EXCEPT !.map = Append(@, MessageRecord(convId, node, content))]

RECURSIVE PutNodes(_, _, _, _)
\* Object.values(conv.mapping).forEach(...)
PutNodes(acc, convId, nodes, limit) ==
    IF nodes = <<>> THEN acc
    ELSE PutNodes(PutMessage(acc, convId, nodes[1], limit), convId, Tail(nodes), limit)

RECURSIVE Dedup_WinnerOnly(_, _, _)
\* Dedup keeping, for a conversation id, only the nodes of the occurrence whose
\* conversation record is kept
Dedup_WinnerOnly(acc, conversations, limit) ==
    IF conversations = <<>> \/ ~acc.ok THEN acc
    ELSE LET conv == conversations[1]
             withConv == [acc EXCEPT !.cmap = PutConversation(@, conv)]
             Other(r) == r.conversation_id # conv.id
             kept == [withConv EXCEPT !.map = SelectSeq(@, Other)]
             withNodes == IF withConv.cmap = acc.cmap THEN withConv
                          ELSE IF conv.mapping = None THEN kept
                          ELSE PutNodes(kept, conv.id, conv.mapping[1], limit)
         IN  Dedup_WinnerOnly(withNodes, Tail(conversations), limit)

RECURSIVE Dedup(_, _, _)
\* conversations.forEach(...): the two maps, or ok = FALSE when the loop threw
Dedup(acc, conversations, limit) ==
    IF conversations = <<>> \/ ~acc.ok THEN acc
    ELSE LET conv == conversations[1]
             withConv == [acc EXCEPT !.cmap = PutConversation(@, conv)]
             withNodes == IF conv.mapping = None THEN withConv
                          ELSE PutNodes(withConv, conv.id, conv.mapping[1], limit)
         IN  Dedup(withNodes, Tail(conversations), limit)

\* conversationRecords and messageRecords of storeConversations(conversations, _, limits)
DedupBatch(conversations, limit) ==
    Dedup([ok |-> TRUE, cmap |-> <<>>, map |-> <<>>], conversations, limit)

(***************************************************************************)
(* export-manager.js: generateExportId                                      *)
(***************************************************************************)
CharCode ==
    [c \in {"0", "1", "2", "3", "4", "5", "6", "7", "8", "9", ".", "_",
            "a", "b", "i", "j", "n", "o", "p", "s", "t", "x", "z", "A", "B"} |->
        CASE c = "0" -> 48 [] c = "1" -> 49 [] c = "2" -> 50 [] c = "3" -> 51
          [] c = "4" -> 52 [] c = "5" -> 53 [] c = "6" -> 54 [] c = "7" -> 55
          [] c = "8" -> 56 [] c = "9" -> 57 [] c = "." -> 46 [] c = "_" -> 95
          [] c = "a" -> 97 [] c = "b" -> 98 [] c = "i" -> 105 [] c = "j" -> 106
          [] c = "n" -> 110 [] c = "o" -> 111 [] c = "p" -> 112 [] c = "s" -> 115
          [] c = "t" -> 116 [] c = "x" -> 120 [] c = "z" -> 122 [] c = "A" -> 65
          [] c = "B" -> 66]

Digits36 ==
    <<"0", "1", "2", "3", "4", "5", "6", "7", "8", "9", "a", "b", "c", "d", "e",
      "f", "g", "h", "i", "j", "k", "l", "m", "n", "o", "p", "q", "r", "s", "t",
      "u", "v", "w", "x", "y", "z">>

RECURSIVE ToRadix(_, _)
\* Number.prototype.toString(radix) of a non-negative integer
ToRadix(n, radix) ==
    IF n < radix THEN S(Digits36[n + 1])
    ELSE ToRadix(n \div radix, radix) \o S(Digits36[(n % radix) + 1])

\* A 32-bit integer is kept as its two unsigned 16-bit halves <<high, low>>, so
\* that no intermediate value leaves the range of the model checker's integers.
\* One round of the loop: ((hashValue << 5) - hashValue + char) & itself, which is
\* 31 * hashValue + char wrapped to 32 bits.
HashRound(half, char) ==
    LET low == 31 * half[2] + char
        high == 31 * half[1] + (low \div 65536)
    IN  <<high % 65536, low % 65536>>

RECURSIVE RollingHash(_, _)
\* hashValue after the loop over the characters of str
RollingHash(half, str) ==
    IF str = <<>> THEN half
    ELSE RollingHash(HashRound(half, CharCode[str[1]]), Tail(str))

\* Math.abs of the signed 32-bit value held in the two halves
AbsInt32(half) ==
    IF half[1] < 32768 THEN half[1] * 65536 + half[2]
    ELSE (65535 - half[1]) * 65536 + (65536 - half[2])

\* an identity that also takes in how many conversations the file holds
generateExportId_OfContent(file) ==
    LET hash == file.name \o S("_") \o ToRadix(file.size, 10) \o S("_")
                    \o ToRadix(file.lastModified, 10) \o S("_")
                    \o ToRadix(Len(file.payload.conversations), 10)
    IN  S("export_") \o ToRadix(AbsInt32(RollingHash(<<0, 0>>, hash)), 36)

generateExportId(file) ==
    LET hash == file.name \o S("_") \o ToRadix(file.size, 10) \o S("_")
                    \o ToRadix(file.lastModified, 10)
    IN  S("export_") \o ToRadix(AbsInt32(RollingHash(<<0, 0>>, hash)), 36)

(***************************************************************************)
(* Inputs: the JSON payload shape of an export and the files a user picks   *)
(***************************************************************************)
MaxBatch == 2       \* conversations per batch handed to storeConversations
MaxLimit == 3       \* largest MAX_CONTENT_LENGTH a caller configures
MaxOps == 2         \* dbOperations calls made through the API in one run

Node(id, author, parts, createTime) ==
    [id |-> id, parent |-> "root",
     message |-> Some([author |-> author, parts |-> parts, create_time |-> createTime])]

\* a node of the mapping that carries no message
BareNode(id) == [id |-> id, parent |-> "root", message |-> None]

Conversation(id, title, createTime, updateTime, mapping) ==
    [id |-> id, title |-> title, create_time |-> createTime,
     update_time |-> updateTime, mapping |-> mapping]

\* c1 without update_time; a message without create_time and a whitespace-only body
K1 == Conversation("c1", S("A"), Some(1), None,
        Some(<<Node("n1", Some("user"), Some(<< <<"a", "b">> >>), None),
               Node("n2", Some("user"), Some(<< <<" ">>, <<" ">> >>), Some(1))>>))
\* c1 again, update_time 1; a two-part body
K2 == Conversation("c1", S("B"), Some(1), Some(1),
        Some(<<Node("n1", Some("assistant"), Some(<< <<"a", "b", "c">>, <<"d">> >>), Some(1)),
               Node("n2", Some("user"), Some(<< <<"w">> >>), Some(1))>>))
\* c1 again, update_time 2; n1 as recent as that of K2, n2 more recent
K3 == Conversation("c1", S("C"), Some(2), Some(2),
        Some(<<Node("n1", Some("user"), Some(<< <<"x", "y">> >>), Some(1)),
               Node("n2", Some("tool"), Some(<< <<"z">> >>), Some(2))>>))
\* c2 without mapping
K4 == Conversation("c2", S("D"), None, Some(2), None)
\* c2 again with the same update_time; nodes without message or without parts, and
\* node n1 twice within one mapping
K5 == Conversation("c2", S("E"), Some(3), Some(2),
        Some(<<BareNode("n3"), Node("n4", Some("user"), None, Some(1)),
               Node("n5", Some("user"), Some(<<>>), Some(1)),
               Node("n1", Some("user"), Some(<< <<"y">> >>), None),
               Node("n1", Some("tool"), Some(<< <<"y", "y">> >>), Some(0))>>))
\* a node with text but without author
K6 == Conversation("c3", S("F"), Some(1), Some(3),
        Some(<<Node("n1", None, Some(<< <<"q">> >>), Some(1))>>))

ConvPool == {K1, K2, K3, K4, K5, K6}

RECURSIVE SeqsUpTo(_, _)
\* the sequences over set of length at most n
SeqsUpTo(set, n) ==
    IF n = 0 THEN {<<>>}
    ELSE LET shorter == SeqsUpTo(set, n - 1)
         IN  shorter \cup {Append(q, x) : q \in shorter, x \in set}

Batches == SeqsUpTo(ConvPool, MaxBatch)

Limits == {None} \cup {Some(n) : n \in 0..MaxLimit}

\* the batches the interleaved API calls choose from
ApiBatches == {<<K1>>, <<K3, K4>>}

File(name, size, lastModified, payload) ==
    [name |-> name, size |-> size, lastModified |-> lastModified, payload |-> payload]

\* what reading and parsing the file yields: an array, another JSON value, or an error
ArrayPayload(conversations) == [kind |-> "array", conversations |-> conversations]
ObjectPayload == [kind |-> "object", conversations |-> <<>>]
BrokenPayload == [kind |-> "error", conversations |-> <<>>]

F1 == File(<<"a", ".", "z", "i", "p">>, 1, 1, ArrayPayload(<<K1>>))
F2 == File(<<"b", ".", "z", "i", "p">>, 2, 1, ArrayPayload(<<K3, K4>>))
\* an archive that cannot be read
F3 == File(<<"x", ".", "z", "i", "p">>, 3, 1, BrokenPayload)
\* JSON that is not an array
F4 == File(<<"j", ".", "j", "s", "o", "n">>, 4, 1, ObjectPayload)
\* neither .zip nor .json
F5 == File(<<"t", ".", "t", "x", "t">>, 5, 1, BrokenPayload)
\* a conversation whose node has no author
F6 == File(<<"s", ".", "z", "i", "p">>, 6, 1, ArrayPayload(<<K6>>))
\* larger than MAX_FILE_SIZE
F7 == File(<<"o", ".", "z", "i", "p">>, 7, 1, ArrayPayload(<<K4>>))
\* more conversations than MAX_CONVERSATIONS
F8 == File(<<"n", ".", "j", "s", "o", "n">>, 2, 2, ArrayPayload(<<K1, K2, K5>>))

FilePool == {F1, F2, F3, F4, F5, F6, F7, F8}

\* the handles the API calls are made with: null (the legacy database) or an export id
ExportIds == {generateExportId(F1), generateExportId(F2)}
Handles == {None} \cup ExportIds

(***************************************************************************)
(* database.js: the database cache and the tables                           *)
(***************************************************************************)
LegacyName == S("ChatGPTDatabase")

\* getDatabase opening the one default database whatever the export
GetDbName_Shared(exportId) == LegacyName

\* the name getDatabase(exportId) opens
GetDbName(exportId) ==
    IF exportId = None THEN LegacyName ELSE S("ChatGPTDatabase_") \o exportId

\* the name deleteDatabase(exportId) deletes: `ChatGPTDatabase_${exportId}`
DeleteDbName(exportId) ==
    S("ChatGPTDatabase_") \o (IF exportId = None THEN S("null") ELSE exportId)

\* every database name a call can form
DbNames ==
    {LegacyName} \cup
    {S("ChatGPTDatabase_") \o e : e \in {generateExportId(f) : f \in FilePool} \cup {S("null")}}

\* a database as version(1).stores() creates it: two tables keyed by ++id
EmptyDatabase == [conversations |-> <<>>, messages |-> <<>>, convKey |-> 0, msgKey |-> 0]

\* the rows a bulkPut adds for records that carry no id: the key generator numbers them
Numbered(records, key) ==
    [i \in 1..Len(records) |-> [id |-> key + i] @@ records[i]]

BulkPutConversations(database, records) ==
    [database EXCEPT !.conversations = @ \o Numbered(records, database.convKey),
                     !.convKey = @ + Len(records)]

BulkPutMessages(database, records) ==
    [database EXCEPT !.messages = @ \o Numbered(records, database.msgKey),
                     !.msgKey = @ + Len(records)]

\* table.clear() keeps the key generator
ClearConversations(database) == [database EXCEPT !.conversations = <<>>]
ClearMessages(database) == [database EXCEPT !.messages = <<>>]

LowerOf ==
    [c \in {"A", "B", "C", "D", "E", "F"} |->
        CASE c = "A" -> "a" [] c = "B" -> "b" [] c = "C" -> "c"
          [] c = "D" -> "d" [] c = "E" -> "e" [] c = "F" -> "f"]

\* String.prototype.toLowerCase()
ToLowerCase(s) == [i \in 1..Len(s) |-> IF s[i] \in DOMAIN LowerOf THEN LowerOf[s[i]] ELSE s[i]]

\* String.prototype.includes(needle)
Includes(hay, needle) ==
    \E i \in 0..(Len(hay) - Len(needle)) : SubSeq(hay, i + 1, i + Len(needle)) = needle

\* the rows of a table as a set
Rows(table) == {table[i] : i \in 1..Len(table)}

RECURSIVE Descending(_)
\* rows (all with update_time) from the greatest (update_time, id) to the least
Descending(rows) ==
    IF rows = {} THEN <<>>
    ELSE LET top == CHOOSE r \in rows : \A q \in rows :
                        \/ q.update_time[1] < r.update_time[1]
                        \/ q.update_time[1] = r.update_time[1] /\ q.id <= r.id
         IN  <<top>> \o Descending(rows \ {top})

\* db.conversations.orderBy('update_time').reverse().toArray(): the update_time
\* index holds only the rows that have an update_time
ConversationsOf(database) ==
    Descending({r \in Rows(database.conversations) : r.update_time # None})

\* array.sort((a, b) => (a.create_time || 0) - (b.create_time || 0)), a stable sort
RECURSIVE SortByCreateTime(_)
SortByCreateTime(rows) ==
    IF rows = <<>> THEN <<>>
    ELSE LET sorted == SortByCreateTime(SubSeq(rows, 1, Len(rows) - 1))
             x == rows[Len(rows)]
             k == Cardinality({i \in 1..Len(sorted) :
                        OrZero(sorted[i].create_time) <= OrZero(x.create_time)})
         IN  SubSeq(sorted, 1, k) \o <<x>> \o SubSeq(sorted, k + 1, Len(sorted))

\* db.messages.where('conversation_id').equals(conversationId).toArray()
MessagesWhere(database, conversationId) ==
    LET Match(r) == r.conversation_id = conversationId
    IN  SelectSeq(database.messages, Match)

ConversationMessagesOf(database, conversationId) ==
    SortByCreateTime(MessagesWhere(database, conversationId))

\* the rows searchInConversation returns for a query that is not blank
SearchInConversationOf(database, conversationId, query) ==
    LET Match(r) == Includes(ToLowerCase(r.content), ToLowerCase(query))
    IN  SelectSeq(MessagesWhere(database, conversationId), Match)

StatsOf(database) ==
    [conversations |-> Len(database.conversations), messages |-> Len(database.messages)]

(***************************************************************************)
(* database.js: the calls of dbOperations and deleteDatabase.  A call runs  *)
(* up to its first await in one step and one step per later await; a write  *)
(* takes effect in the step that issues it (IndexedDB runs the read-write   *)
(* transactions of one database in the order they were created).            *)
(***************************************************************************)
OpIds == 1..MaxOps

IdleOp ==
    [pc |-> "idle", kind |-> "none", exportId |-> None, name |-> LegacyName,
     batch |-> <<>>, limit |-> None, pending |-> <<>>, closed |-> FALSE,
     repeats |-> FALSE, stats |-> [conversations |-> 0, messages |-> 0]]

NoDone == [valid |-> FALSE, name |-> LegacyName, batch |-> <<>>, limit |-> None,
           after |-> EmptyDatabase]

NoTwice == [valid |-> FALSE, first |-> EmptyDatabase, second |-> EmptyDatabase]

InFlight(o) == ops[o].pc \notin {"idle", "done", "failed"}

\* slot o is the next one to use
Free(o) == ops[o].pc = "idle" /\ \A q \in OpIds : q < o => ops[q].pc # "idle"

\* getDatabase(exportId): the cache after the call
CacheAfterGet(name) == IF dbCache[name] = "none" THEN [dbCache EXCEPT ![name] = "open"] ELSE dbCache

\* the instance getDatabase returns has been closed by db.delete() and was not yet
\* dropped from the cache: every request on it is rejected with DatabaseClosedError
ClosedHandle(name) == dbCache[name] = "closed"

\* another mutating call started: the calls in flight no longer repeat their predecessor
Disturbed(o) == [q \in OpIds |-> IF q = o THEN ops[q] ELSE [ops[q] EXCEPT !.repeats = FALSE]]

UiUnchanged ==
    UNCHANGED <<input, registry, activeExports, isProcessingFiles, calls, trail, zip, search,
                thisConversations, session>>

\* what storeConversations(batch, _, limits) returns once both writes are done
StoreResult(batch, limit) ==
    [conversations |-> Len(DedupBatch(batch, limit).cmap),
     messages |-> Len(DedupBatch(batch, limit).map)]

\* storeConversations(batch, false, {MAX_CONTENT_LENGTH: limit}, exportId) up to the
\* await of bulkPut(conversationRecords)
StoreCall(o, batch, limit, exportId) ==
    LET d == DedupBatch(batch, limit)
        name == GetDbName(exportId)
        op == [IdleOp EXCEPT !.kind = "store", !.exportId = exportId, !.name = name,
                             !.batch = batch, !.limit = limit]
    IN  /\ Free(o)
        /\ IF ~d.ok
           THEN /\ ops' = [Disturbed(o) EXCEPT ![o] = [op EXCEPT !.pc = "failed"]]
                /\ UNCHANGED <<db, dbCache, done>>
           ELSE /\ dbCache' = CacheAfterGet(name)
                /\ \E ok \in BOOLEAN :
                     IF ok /\ ~ClosedHandle(name)
                     THEN /\ db' = [db EXCEPT ![name] = BulkPutConversations(@, d.cmap)]
                          /\ ops' = [Disturbed(o) EXCEPT ![o] =
                                [op EXCEPT !.pc = "putMessages", !.pending = d.map,
                                           !.repeats = /\ done.valid
                                                       /\ done.name = name
                                                       /\ done.batch = batch
                                                       /\ done.limit = limit
                                                       /\ \A q \in OpIds : ~InFlight(q)]]
                          /\ done' = done
                     ELSE /\ ops' = [Disturbed(o) EXCEPT ![o] = [op EXCEPT !.pc = "failed"]]
                          /\ done' = NoDone
                          /\ db' = db
        /\ twice' = NoTwice
        /\ UiUnchanged

\* storeConversations from the await of bulkPut(messageRecords) to its return
StorePutMessages(o) ==
    LET op == ops[o]
    IN  /\ op.kind = "store" /\ op.pc = "putMessages"
        /\ \E ok \in BOOLEAN :
             IF ok /\ ~op.closed
             THEN /\ db' = [db EXCEPT ![op.name] = BulkPutMessages(@, op.pending)]
                  /\ ops' = [ops EXCEPT ![o].pc = "done"]
                  /\ done' = [valid |-> TRUE, name |-> op.name, batch |-> op.batch,
                              limit |-> op.limit, after |-> db'[op.name]]
                  /\ twice' = IF op.repeats
                              THEN [valid |-> TRUE, first |-> done.after, second |-> db'[op.name]]
                              ELSE NoTwice
             ELSE /\ ops' = [ops EXCEPT ![o].pc = "failed"]
                  /\ done' = NoDone
                  /\ twice' = NoTwice
                  /\ db' = db
        /\ UNCHANGED dbCache
        /\ UiUnchanged

\* clearAll(exportId) up to the await of conversations.clear()
ClearAllCall(o, exportId) ==
    LET name == GetDbName(exportId)
        op == [IdleOp EXCEPT !.kind = "clear", !.exportId = exportId, !.name = name]
    IN  /\ Free(o)
        /\ dbCache' = CacheAfterGet(name)
        /\ IF ClosedHandle(name)
           THEN /\ ops' = [Disturbed(o) EXCEPT ![o] = [op EXCEPT !.pc = "failed"]]
                /\ db' = db
           ELSE /\ db' = [db EXCEPT ![name] = ClearConversations(@)]
                /\ ops' = [Disturbed(o) EXCEPT ![o] = [op EXCEPT !.pc = "clearMessages"]]
        /\ done' = NoDone
        /\ twice' = NoTwice
        /\ UiUnchanged

\* clearAll from the await of messages.clear() to its return
ClearAllMessages(o) ==
    LET op == ops[o]
    IN  /\ op.kind = "clear" /\ op.pc = "clearMessages"
        /\ IF op.closed
           THEN /\ ops' = [ops EXCEPT ![o].pc = "failed"]
                /\ db' = db
           ELSE /\ db' = [db EXCEPT ![op.name] = ClearMessages(@)]
                /\ ops' = [ops EXCEPT ![o].pc = "done"]
        /\ done' = NoDone
        /\ twice' = NoTwice
        /\ UNCHANGED dbCache
        /\ UiUnchanged

\* db.delete() or Dexie.delete(name): the database is closed and deleted; every
\* call in flight on it holds a closed connection from now on
CloseCalls(opsNow, name) ==
    [q \in OpIds |-> IF opsNow[q].name = name /\ opsNow[q].pc \notin {"idle", "done", "failed"}
                     THEN [opsNow[q] EXCEPT !.closed = TRUE]
                     ELSE opsNow[q]]

\* deleteDatabase(exportId) up to the await of the deletion
DeleteDatabaseCall(o, exportId) ==
    LET name == DeleteDbName(exportId)
        op == [IdleOp EXCEPT !.kind = "delete", !.exportId = exportId, !.name = name]
        cached == dbCache[name] # "none"
    IN  /\ Free(o)
        /\ db' = [db EXCEPT ![name] = EmptyDatabase]
        /\ dbCache' = IF cached THEN [dbCache EXCEPT ![name] = "closed"] ELSE dbCache
        /\ ops' = [CloseCalls(Disturbed(o), name) EXCEPT ![o] =
                        [op EXCEPT !.pc = IF cached THEN "uncache" ELSE "done"]]
        /\ done' = NoDone
        /\ twice' = NoTwice
        /\ UiUnchanged

\* deleteDatabase after the await: dbCache.delete(dbName)
DeleteDatabaseUncache(o) ==
    LET op == ops[o]
    IN  /\ op.kind = "delete" /\ op.pc = "uncache"
        /\ dbCache' = [dbCache EXCEPT ![op.name] = "none"]
        /\ ops' = [ops EXCEPT ![o].pc = "done"]
        /\ UNCHANGED <<db, done, twice>>
        /\ UiUnchanged

\* getStats(exportId) up to the await of conversations.count()
GetStatsCall(o, exportId) ==
    LET name == GetDbName(exportId)
        op == [IdleOp EXCEPT !.kind = "stats", !.exportId = exportId, !.name = name]
    IN  /\ Free(o)
        /\ dbCache' = CacheAfterGet(name)
        /\ IF ClosedHandle(name)
           THEN ops' = [ops EXCEPT ![o] = [op EXCEPT !.pc = "failed"]]
           ELSE ops' = [ops EXCEPT ![o] = [op EXCEPT !.pc = "countMessages",
                            !.stats.conversations = Len(db[name].conversations)]]
        /\ UNCHANGED <<db, done, twice>>
        /\ UiUnchanged

\* getStats from the await of messages.count() to its return
GetStatsMessages(o) ==
    LET op == ops[o]
    IN  /\ op.kind = "stats" /\ op.pc = "countMessages"
        /\ IF op.closed
           THEN ops' = [ops EXCEPT ![o].pc = "failed"]
           ELSE ops' = [ops EXCEPT ![o].pc = "done",
                                   ![o].stats.messages = Len(db[op.name].messages)]
        /\ UNCHANGED <<db, dbCache, done, twice>>
        /\ UiUnchanged

\* what a call that reads one table in one request resolves to, or its rejection
Resolved(rows) == [ok |-> TRUE, rows |-> rows]
Rejected == [ok |-> FALSE, rows |-> <<>>]

\* the query tested for the empty string only
Blank_EmptyOnly(query) == query = <<>>

\* String.prototype.trim() leaves nothing
Blank(query) == ~TrimNonEmpty(query)

GetConversationsResult(exportId) ==
    LET name == GetDbName(exportId)
    IN  IF ClosedHandle(name) THEN Rejected ELSE Resolved(ConversationsOf(db[name]))

GetConversationMessagesResult(conversationId, exportId) ==
    LET name == GetDbName(exportId)
    IN  IF ClosedHandle(name) THEN Rejected
        ELSE Resolved(ConversationMessagesOf(db[name], conversationId))

SearchInConversationResult(conversationId, query, exportId) ==
    LET name == GetDbName(exportId)
    IN  IF Blank(query) THEN Resolved(<<>>)
        ELSE IF ClosedHandle(name) THEN Rejected
        ELSE Resolved(SearchInConversationOf(db[name], conversationId, query))

\* the state a reading call leaves: getDatabase may have added an instance to the cache
ReadCall(exportId) ==
    /\ dbCache' = CacheAfterGet(GetDbName(exportId))
    /\ UNCHANGED <<db, ops, done, twice>>
    /\ UiUnchanged

GetConversations(exportId) == ReadCall(exportId)

GetConversationMessages(conversationId, exportId) == ReadCall(exportId)

SearchInConversation(conversationId, query, exportId) ==
    IF Blank(query) THEN UNCHANGED vars ELSE ReadCall(exportId)

ConversationIds == {"c1", "c2"}
Queries == {<<" ">>, <<"z">>}

(***************************************************************************)
(* export-manager.js: the import registry                                   *)
(***************************************************************************)
\* registry.find(exp => exp.id === generateExportId(file)) || null
findExportByFile_Never(reg, file) == None

findExportByFile(reg, file) ==
    LET hit == {i \in 1..Len(reg) : reg[i].id = generateExportId(file)}
    IN  IF hit = {} THEN None ELSE Some(reg[CHOOSE i \in hit : \A j \in hit : i <= j])

\* the metadata addExportToRegistry records (the timestamp is left out)
ExportData(file, exportId) ==
    [id |-> exportId, filename |-> file.name, size |-> file.size,
     dbName |-> S("ChatGPTDatabase_") \o exportId]

Registered(reg, exportId) == \E i \in 1..Len(reg) : reg[i].id = exportId

\* a registration that appends a record whether or not the identity is known
addExportToRegistry_Always(reg, file, exportId) == Append(reg, ExportData(file, exportId))

\* the registry after addExportToRegistry(file, exportId) has saved it
addExportToRegistry(reg, file, exportId) ==
    IF Registered(reg, exportId) THEN reg ELSE Append(reg, ExportData(file, exportId))

(***************************************************************************)
(* main.js: ChatGPTExplorer.processFiles and the handlers that call it.     *)
(* A call runs from one await to the next in one step.                      *)
(***************************************************************************)
MaxCalls == 2       \* processFiles invocations in one run
MaxFiles == 2       \* files handed to one processFiles invocation

\* this.limits, as initializeLimits merges them from the saved preferences: a file
\* size and a conversation count the user has configured, and the default content
\* length
MAX_FILE_SIZE == 6
MAX_CONVERSATIONS == 2
MAX_CONTENT_LENGTH == 52428800

CallIds == 1..MaxCalls

Sources == {"drop", "fileInput", "processFile"}

IdleCall ==
    [pc |-> "idle", src |-> "none", result |-> "none", files |-> <<>>, i |-> 0,
     exportId |-> None, pending |-> <<>>, allCount |-> 0, processedCount |-> 0,
     skippedCount |-> 0, errors |-> <<>>, stats |-> 0,
     total |-> 0, message |-> "none", reported |-> <<>>, closed |-> FALSE]

\* history, per file name: occurrences the loop began, extractions and store writes begun,
\* whether addExportToRegistry has recorded the file, what was begun after that,
\* and how the latest ingestion that was not skipped ended
NoTrail ==
    [n \in {f.name : f \in FilePool} |-> [seen |-> 0, extracted |-> 0, stored |-> 0, known |-> FALSE,
                         again |-> 0, reExtracted |-> 0, reStored |-> 0, outcome |-> "none"]]

\* if (this.isProcessingFiles) return, with the flag never found set
Busy_Never(flag) == FALSE

\* if (this.isProcessingFiles) return
Busy(flag) == flag

EndsWith(s, suffix) ==
    Len(s) >= Len(suffix) /\ SubSeq(s, Len(s) - Len(suffix) + 1, Len(s)) = suffix

ValidFile(file) ==
    \/ EndsWith(file.name, <<".", "z", "i", "p">>)
    \/ EndsWith(file.name, <<".", "j", "s", "o", "n">>)

ValidFiles(files) == SelectSeq(files, ValidFile)

\* if (!this.activeExports.includes(id)) this.activeExports.push(id)
Include(exports, id) ==
    IF \E i \in 1..Len(exports) : exports[i] = id THEN exports ELSE Append(exports, id)

\* the part of the state a synchronous stretch of processFiles works on
Machine(c) ==
    [call |-> calls[c], registry |-> registry, activeExports |-> activeExports,
     dbCache |-> dbCache, trail |-> trail]

CurrentFile(call) == call.files[call.i]

\* the message processFiles shows when every step has gone through: the failed files
\* are named, each with its cause, when there are any
SuccessMessage(call) ==
    IF call.errors # <<>> /\ call.processedCount = 0 /\ call.skippedCount = 0
    THEN "allFailed"
    ELSE IF call.errors # <<>> THEN "someFailed" ELSE "success"

\* the files the closing message names: those of errorDetails, or none when the
\* message is `Error: ${error.message}` of the outer catch
Reported(call, result) == IF result = "ok" THEN call.errors ELSE <<>>

\* the outer catch and finally: the call is over
Finish(m, result) ==
    [m EXCEPT !.call = [IdleCall EXCEPT !.pc = "done", !.result = result,
                                        !.allCount = m.call.allCount,
                                        !.processedCount = m.call.processedCount,
                                        !.skippedCount = m.call.skippedCount,
                                        !.errors = m.call.errors,
                                        !.stats = m.call.stats,
                                        !.total = m.call.total,
                                        !.message = IF result = "ok"
                                                    THEN SuccessMessage(m.call)
                                                    ELSE "error",
                                        !.reported = Reported(m.call, result)]]

\* the checks after the loop, up to the await of getAllStats
AfterLoop(m) ==
    IF m.call.allCount = 0 \/ m.call.allCount > MAX_CONVERSATIONS
    THEN Finish(m, "error")
    ELSE [m EXCEPT !.call.pc = "stats"]

\* the per-file catch leaving the loop instead of going on to the next file
Caught_Abort(m) ==
    [m EXCEPT !.call.errors = Append(@, CurrentFile(m.call).name),
              !.call.i = Len(m.call.files) + 1, !.call.pending = <<>>,
              !.call.exportId = None, !.call.closed = FALSE]

\* the per-file catch: the error is recorded and the loop goes on
Caught(m) ==
    [m EXCEPT !.call.errors = Append(@, CurrentFile(m.call).name),
              !.call.i = @ + 1, !.call.pending = <<>>, !.call.exportId = None,
              !.call.closed = FALSE]

\* the per-file catch for a file that was being ingested
Failed(m) == [Caught(m) EXCEPT !.trail[CurrentFile(m.call).name].outcome = "failed"]

\* the size test with every file let through
TooLarge_Never(file) == FALSE

\* file.size > MAX_FILE_SIZE
TooLarge(file) == file.size > MAX_FILE_SIZE

RECURSIVE Loop(_)
\* the loop from the top of iteration call.i up to its next await
Loop(m) ==
    IF m.call.i > Len(m.call.files) THEN AfterLoop(m)
    ELSE LET file == CurrentFile(m.call)
             existingExport == findExportByFile(m.registry, file)
             known == m.trail[file.name].known
             seen == [m EXCEPT !.trail[file.name].seen = @ + 1,
                               !.trail[file.name].again = IF known THEN @ + 1 ELSE @]
         IN  IF existingExport # None
             THEN [seen EXCEPT !.activeExports = Include(@, existingExport[1].id),
                               !.dbCache = IF @[GetDbName(existingExport[1].id)] = "none"
                                           THEN [@ EXCEPT ![GetDbName(existingExport[1].id)] = "open"]
                                           ELSE @,
                               !.call.exportId = existingExport[1].id,
                               !.call.pc = "loadExisting"]
             ELSE IF TooLarge(file)
             THEN Loop(Failed(seen))
             ELSE [seen EXCEPT !.call.pc = "extract",
                               !.trail[file.name].extracted = @ + 1,
                               !.trail[file.name].reExtracted = IF known THEN @ + 1 ELSE @]

InBatch(c) == calls[c].pc \in {"loadExisting", "extract", "putMessages", "stats", "reload"}

\* slot c is the next one to use
FreeCall(c) == calls[c].pc = "idle" /\ \A q \in CallIds : q < c => calls[q].pc # "idle"

ApiUnchanged == UNCHANGED <<ops, done, twice, input, zip, search, session>>

\* the state a synchronous stretch leaves, with a finally block that does not clear
\* the flag after the outer catch has run
Apply_FlagKeptOnError(c, m) ==
    /\ calls' = [calls EXCEPT ![c] = m.call]
    /\ registry' = m.registry
    /\ activeExports' = m.activeExports
    /\ dbCache' = m.dbCache
    /\ trail' = m.trail
    /\ isProcessingFiles' = (m.call.pc # "done" \/ m.call.result = "error")

\* the state a synchronous stretch leaves; the finally block clears the flag
Apply(c, m) ==
    /\ calls' = [calls EXCEPT ![c] = m.call]
    /\ registry' = m.registry
    /\ activeExports' = m.activeExports
    /\ dbCache' = m.dbCache
    /\ trail' = m.trail
    /\ isProcessingFiles' = (m.call.pc # "done")

\* a drop on the dropzone, a selection in the file input (handleFileLoad) or a call
\* of processFile, up to the first await of processFiles.  The finally callback of
\* handleFileLoad clears the flag in the microtasks of the task that ends the call.
\* A call that is turned away keeps the handler it came from.
ProcessFilesCall(c, src, files) ==
    LET start == [IdleCall EXCEPT !.files = ValidFiles(files), !.i = 1,
                                  !.total = Len(ValidFiles(files))]
        over(result) == [IdleCall EXCEPT !.pc = "done", !.result = result]
    IN  /\ FreeCall(c)
        /\ src = "processFile" => Len(files) = 1
        /\ UNCHANGED db
        /\ ApiUnchanged
        /\ UNCHANGED thisConversations
        /\ IF files = <<>>
           THEN /\ calls' = [calls EXCEPT ![c] = over("empty")]
                /\ UNCHANGED <<registry, activeExports, dbCache, trail, isProcessingFiles>>
           ELSE IF Busy(isProcessingFiles)
           THEN /\ calls' = [calls EXCEPT ![c] = [IdleCall EXCEPT !.pc = "rejected", !.src = src]]
                /\ UNCHANGED <<registry, activeExports, dbCache, trail, isProcessingFiles>>
           ELSE IF ValidFiles(files) = <<>>
           THEN /\ calls' = [calls EXCEPT ![c] = [over("invalid") EXCEPT !.message = "invalid"]]
                /\ isProcessingFiles' = IF src = "drop" THEN isProcessingFiles ELSE FALSE
                /\ UNCHANGED <<registry, activeExports, dbCache, trail>>
           ELSE Apply(c, Loop([Machine(c) EXCEPT !.call = start]))

\* the skip path from the await of getConversations(existingExport.id)
LoadExisting(c) ==
    LET m == Machine(c)
        loaded == GetConversationsResult(m.call.exportId)
    IN  /\ m.call.pc = "loadExisting"
        /\ UNCHANGED db
        /\ ApiUnchanged
        /\ UNCHANGED thisConversations
        /\ IF loaded.ok /\ ~m.call.closed
           THEN Apply(c, Loop([m EXCEPT !.call.allCount = @ + Len(loaded.rows),
                                        !.call.skippedCount = @ + 1,
                                        !.call.exportId = None,
                                        !.call.i = @ + 1]))
           ELSE Apply(c, Loop(Caught(m)))

\* from the await of extractConversationsFromFile to the await of
\* bulkPut(conversationRecords) inside storeConversations
Extracted(c) ==
    LET m == Machine(c)
        file == CurrentFile(m.call)
        payload == file.payload
        exportId == generateExportId(file)
        name == GetDbName(exportId)
        d == DedupBatch(payload.conversations, Some(MAX_CONTENT_LENGTH))
        known == trail[file.name].known
        added == [m EXCEPT !.registry = addExportToRegistry(@, file, exportId),
                           !.activeExports = Include(@, exportId),
                           !.trail[file.name].known = TRUE]
        storing == [added EXCEPT !.dbCache = CacheAfterGet(name),
                                 !.trail[file.name].stored = @ + 1,
                                 !.trail[file.name].reStored = IF known THEN @ + 1 ELSE @]
    IN  /\ m.call.pc = "extract"
        /\ ApiUnchanged
        /\ UNCHANGED thisConversations
        /\ IF payload.kind # "array" \/ Len(payload.conversations) > MAX_CONVERSATIONS
           THEN /\ Apply(c, Loop(Failed(m)))
                /\ UNCHANGED db
           ELSE \E saved \in BOOLEAN, ok \in BOOLEAN :
                  IF ~Registered(registry, exportId) /\ ~saved
                  THEN /\ Apply(c, Loop(Failed(m)))
                       /\ UNCHANGED db
                  ELSE IF ~d.ok
                  THEN /\ Apply(c, Loop(Failed(added)))
                       /\ UNCHANGED db
                  ELSE IF ok /\ ~ClosedHandle(name)
                  THEN /\ db' = [db EXCEPT ![name] = BulkPutConversations(@, d.cmap)]
                       /\ Apply(c, [storing EXCEPT !.call.pc = "putMessages",
                                                   !.call.exportId = exportId,
                                                   !.call.pending = d.map])
                  ELSE /\ Apply(c, Loop(Failed(storing)))
                       /\ UNCHANGED db

\* from the await of bulkPut(messageRecords) to the next await of the loop
PutMessages(c) ==
    LET m == Machine(c)
        file == CurrentFile(m.call)
        name == GetDbName(m.call.exportId)
    IN  /\ m.call.pc = "putMessages"
        /\ ApiUnchanged
        /\ UNCHANGED thisConversations
        /\ \E ok \in BOOLEAN :
             IF ok /\ ~ClosedHandle(name) /\ ~m.call.closed
             THEN /\ db' = [db EXCEPT ![name] = BulkPutMessages(@, m.call.pending)]
                  /\ Apply(c, Loop([m EXCEPT
                        !.call.allCount = @ + Len(file.payload.conversations),
                        !.call.processedCount = @ + 1,
                        !.call.pending = <<>>,
                        !.call.exportId = None,
                        !.call.i = @ + 1,
                        !.trail[file.name].outcome = "ok"]))
             ELSE /\ Apply(c, Loop(Failed(m)))
                  /\ UNCHANGED db

RECURSIVE OpenAll(_, _)
\* the cache after getDatabase has been called for each export
OpenAll(cache, exports) ==
    IF exports = <<>> THEN cache
    ELSE OpenAll(IF cache[GetDbName(exports[1])] = "none"
                 THEN [cache EXCEPT ![GetDbName(exports[1])] = "open"]
                 ELSE cache, Tail(exports))

RECURSIVE AllStatsOf(_)
\* getAllStats(exportIds).conversations
AllStatsOf(exports) ==
    IF exports = <<>> THEN 0
    ELSE Len(db[GetDbName(exports[1])].conversations) + AllStatsOf(Tail(exports))

RECURSIVE AllConversationsOf(_)
\* the number of conversations getAllConversationsFromExports(exportIds) returns;
\* an export whose read is rejected contributes none
AllConversationsOf(exports) ==
    IF exports = <<>> THEN 0
    ELSE (IF ClosedHandle(GetDbName(exports[1])) THEN 0
          ELSE Len(ConversationsOf(db[GetDbName(exports[1])])))
            + AllConversationsOf(Tail(exports))

\* a call of removeExport or clearData: nothing yet.  list and live stand for the
\* array the call iterates: this.activeExports itself while live, else the array it
\* was when this.activeExports was assigned a new one
IdleManage ==
    [pc |-> "idle", op |-> "none", exportId |-> None, cached |-> FALSE, k |-> 0,
     list |-> <<>>, live |-> FALSE, message |-> "none"]

MaxManage == 2      \* removeExport and clearData calls in one run

ManageIds == 1..MaxManage

\* a call of selectConversation that may overlap another: nothing yet
IdleSelect == [pc |-> "idle", conversation |-> None, outcome |-> "none"]

MaxSelects == 2     \* selectConversation calls that overlap in one run

SelectIds == 1..MaxSelects

\* the call of the explorer or of the registry in progress: nothing yet.  unopenable
\* holds the databases whose open request fails in this session.
IdleSession ==
    [pc |-> "idle", op |-> "none", unopenable |-> {}, outcome |-> "none", message |-> "none",
     rendered |-> FALSE, file |-> None, exportId |-> None, returned |-> None,
     threw |-> FALSE, issued |-> {}, conversation |-> None, fetch |-> "none", timer |-> 0,
     loading |-> FALSE, content |-> "none", shown |-> <<>>,
     manage |-> [s \in ManageIds |-> IdleManage],
     selects |-> [i \in SelectIds |-> IdleSelect]]

\* the request on the database is rejected: its handle is closed, or it cannot be opened
Fails(name) == ClosedHandle(name) \/ name \in session.unopenable

\* conv.exportId = exportId; if (exportData) conv.exportFilename = exportData.filename
Tagged(conv, exportId) ==
    LET at == {i \in 1..Len(registry) : registry[i].id = exportId}
    IN  [exportId |-> exportId,
         exportFilename |-> IF at = {} THEN None
                            ELSE Some(registry[CHOOSE i \in at : \A j \in at : i <= j].filename)]
        @@ conv

RECURSIVE Aggregated(_)
\* allConversations once the loop over exportIds is over: an export whose read is
\* rejected is logged and adds nothing
Aggregated(exportIds) ==
    IF exportIds = <<>> THEN <<>>
    ELSE LET exportId == exportIds[Len(exportIds)]
             before == Aggregated(SubSeq(exportIds, 1, Len(exportIds) - 1))
             read == ConversationsOf(db[GetDbName(exportId)])
         IN  IF Fails(GetDbName(exportId)) THEN before
             ELSE before \o [k \in 1..Len(read) |-> Tagged(read[k], exportId)]

RECURSIVE SortByUpdateTimeDescending(_)
\* array.sort((a, b) => (b.update_time || 0) - (a.update_time || 0)), a stable sort
SortByUpdateTimeDescending(rows) ==
    IF rows = <<>> THEN <<>>
    ELSE LET sorted == SortByUpdateTimeDescending(SubSeq(rows, 1, Len(rows) - 1))
             x == rows[Len(rows)]
             k == Cardinality({i \in 1..Len(sorted) :
                        OrZero(sorted[i].update_time) >= OrZero(x.update_time)})
         IN  SubSeq(sorted, 1, k) \o <<x>> \o SubSeq(sorted, k + 1, Len(sorted))

\* the same loop rethrowing the error of the first export that cannot be read
getAllConversationsFromExports_FailFast(exportIds) ==
    IF \E i \in 1..Len(exportIds) : Fails(GetDbName(exportIds[i])) THEN <<>>
    ELSE SortByUpdateTimeDescending(Aggregated(exportIds))

getAllConversationsFromExports(exportIds) == SortByUpdateTimeDescending(Aggregated(exportIds))

\* from the await of getAllStats to the await of getAllConversationsFromExports
Stats(c) ==
    LET m == [Machine(c) EXCEPT !.dbCache = OpenAll(@, activeExports)]
        total == AllStatsOf(activeExports)
    IN  /\ m.call.pc = "stats"
        /\ UNCHANGED db
        /\ ApiUnchanged
        /\ UNCHANGED thisConversations
        /\ IF (\E i \in 1..Len(activeExports) : ClosedHandle(GetDbName(activeExports[i])))
              \/ total = 0
           THEN Apply(c, Finish(m, "error"))
           ELSE Apply(c, [m EXCEPT !.call.pc = "reload", !.call.stats = total])

\* from the await of getAllConversationsFromExports to the return of processFiles
Reload(c) ==
    LET m == Machine(c)
    IN  /\ m.call.pc = "reload"
        /\ UNCHANGED db
        /\ ApiUnchanged
        /\ thisConversations' = getAllConversationsFromExports(activeExports)
        /\ IF AllConversationsOf(activeExports) = 0
           THEN Apply(c, Finish(m, "error"))
           ELSE Apply(c, Finish(m, "ok"))

(***************************************************************************)
(* zip-handler.js: isSafePath and extractConversationsJson                  *)
(***************************************************************************)
MAX_ZIP_SIZE == 1
MAX_JSON_TEXT_SIZE == 3
MAX_EXTRACTED_SIZE == 5

Letters ==
    {"a", "b", "c", "d", "e", "f", "g", "h", "i", "j", "k", "l", "m", "n", "o", "p", "q",
     "r", "s", "t", "u", "v", "w", "x", "y", "z",
     "A", "B", "C", "D", "E", "F", "G", "H", "I", "J", "K", "L", "M", "N", "O", "P", "Q",
     "R", "S", "T", "U", "V", "W", "X", "Y", "Z"}

DigitChars == {"0", "1", "2", "3", "4", "5", "6", "7", "8", "9"}

\* the character class [a-zA-Z0-9._\-/]
StrictChars == Letters \cup DigitChars \cup {".", "_", "-", "/"}

\* the character class [a-zA-Z0-9._\-\s,()[\]/]
PermissiveChars == StrictChars \cup Whitespace \cup {",", "(", ")", "[", "]"}

\* path.match(/^[class]+$/)
MatchesAll(path, class) == path # <<>> /\ \A i \in 1..Len(path) : path[i] \in class

\* path.startsWith(prefix)
StartsWith(path, prefix) == Len(path) >= Len(prefix) /\ SubSeq(path, 1, Len(prefix)) = prefix

\* path.match(/^[a-zA-Z]:[\\/]/)
DriveLetter(path) ==
    Len(path) >= 3 /\ path[1] \in Letters /\ path[2] = ":" /\ path[3] \in {"\\", "/"}

\* isSafePath without the test for '..'
isSafePath_NoTraversal(path, strict) ==
    /\ ~Includes(path, <<"/", "/">>)
    /\ ~StartsWith(path, <<"/">>)
    /\ ~DriveLetter(path)
    /\ MatchesAll(path, IF strict THEN StrictChars ELSE PermissiveChars)

isSafePath(path, strict) ==
    /\ ~Includes(path, <<".", ".">>)
    /\ ~Includes(path, <<"/", "/">>)
    /\ ~StartsWith(path, <<"/">>)
    /\ ~DriveLetter(path)
    /\ MatchesAll(path, IF strict THEN StrictChars ELSE PermissiveChars)

\* path.replace(/\\/g, '/')
NormalizedPath(path) == [i \in 1..Len(path) |-> IF path[i] = "\\" THEN "/" ELSE path[i]]

\* the whole path taken for the file name
FileName_WholePath(normalizedPath) == normalizedPath

\* normalizedPath.split('/').pop()
FileName(normalizedPath) ==
    LET slashes == {i \in 1..Len(normalizedPath) : normalizedPath[i] = "/"}
        last == IF slashes = {} THEN 0 ELSE CHOOSE i \in slashes : \A j \in slashes : j <= i
    IN  SubSeq(normalizedPath, last + 1, Len(normalizedPath))

ConversationsJson ==
    <<"c", "o", "n", "v", "e", "r", "s", "a", "t", "i", "o", "n", "s", ".", "j", "s", "o", "n">>

IsTargetFile(path) ==
    \/ FileName(NormalizedPath(path)) = ConversationsJson
    \/ NormalizedPath(path) = ConversationsJson

\* an entry of zipContents.files: its key, its dir flag, the uncompressed size its
\* header declares (_data?.uncompressedSize), and what async('string') would yield
Entry(path, dir, uncompressedSize, text) ==
    [path |-> path, dir |-> dir, uncompressedSize |-> uncompressedSize, text |-> text]

\* a decompressed text: its length, and what JSON.parse makes of it
Text(length, kind, conversations) ==
    [length |-> length, kind |-> kind, conversations |-> conversations]

NoText == Text(0, "error", <<>>)

\* conversations.json
E1 == Entry(ConversationsJson, FALSE, Some(1), Text(1, "array", <<K1>>))
\* d/conversations.json
E2 == Entry(<<"d", "/">> \o ConversationsJson, FALSE, Some(2), Text(2, "array", <<K3>>))
\* ../conversations.json
E3 == Entry(<<".", ".", "/">> \o ConversationsJson, FALSE, Some(1), Text(1, "array", <<K2>>))
\* a b/conversations.json
E4 == Entry(<<"a", " ", "b", "/">> \o ConversationsJson, FALSE, Some(1), Text(1, "array", <<K4>>))
\* c\conversations.json
E5 == Entry(<<"c", "\\">> \o ConversationsJson, FALSE, Some(1), Text(1, "array", <<K5>>))
\* m/i g.png
E6 == Entry(<<"m", "/", "i", " ", "g", ".", "p", "n", "g">>, FALSE, Some(3), NoText)
\* m/i#.png
E7 == Entry(<<"m", "/", "i", "#", ".", "p", "n", "g">>, FALSE, Some(4), NoText)
\* d/
E8 == Entry(<<"d", "/">>, TRUE, None, NoText)
\* o/conversations.json, a JSON object
E9 == Entry(<<"o", "/">> \o ConversationsJson, FALSE, Some(1), Text(1, "object", <<>>))
\* b.bin
E10 == Entry(<<"b", ".", "b", "i", "n">>, FALSE, Some(4), NoText)
\* z/conversations.json, whose header declares no size
E11 == Entry(<<"z", "/">> \o ConversationsJson, FALSE, None, Text(4, "array", <<K6>>))
\* n/conversations.json, not JSON
E12 == Entry(<<"n", "/">> \o ConversationsJson, FALSE, Some(1), Text(1, "error", <<>>))
\* ../e.png
E13 == Entry(<<".", ".", "/", "e", ".", "p", "n", "g">>, FALSE, Some(4), NoText)

EntryPool == {E1, E2, E3, E4, E5, E6, E7, E8, E9, E10, E11, E12, E13}

MaxEntries == 3

\* the keys of zipContents.files are distinct
Distinct(seq) == \A i, j \in 1..Len(seq) : i # j => seq[i] # seq[j]

Archives ==
    {[size |-> size, entries |-> entries] :
        size \in {MAX_ZIP_SIZE, MAX_ZIP_SIZE + 1},
        entries \in {es \in SeqsUpTo(EntryPool, MaxEntries) : Distinct(es)}}

\* the locals of the first pass: totalExtractedSize, jsonFile (an index into the
\* entries), the error thrown, the entries visited and the unsafe targets warned of
NoPass == [total |-> 0, jsonFile |-> None, error |-> "none", scanned |-> 0, warned |-> {}]

\* totalExtractedSize > MAX_EXTRACTED_SIZE with the test left out
TooMuchData_Never(total) == FALSE

TooMuchData(total) == total > MAX_EXTRACTED_SIZE

\* one iteration of a first pass that throws at an entry whose path is refused and
\* that is not conversations.json
Visit_UnsafeAborts(entries, i, st) ==
    LET e == entries[i]
        isTargetFile == IsTargetFile(e.path)
        uncompressedSize == OrZero(e.uncompressedSize)
        seen == [st EXCEPT !.scanned = i]
        counted == [seen EXCEPT !.total = @ + uncompressedSize]
    IN  IF ~isSafePath(e.path, isTargetFile)
        THEN IF isTargetFile THEN [seen EXCEPT !.warned = @ \cup {i}]
             ELSE [seen EXCEPT !.error = "unsafePath"]
        ELSE IF e.dir THEN seen
        ELSE IF TooMuchData(counted.total) THEN [counted EXCEPT !.error = "tooMuchData"]
        ELSE IF uncompressedSize > MAX_JSON_TEXT_SIZE
        THEN [counted EXCEPT !.error = "entryTooLarge"]
        ELSE IF isTargetFile THEN [counted EXCEPT !.jsonFile = Some(i)]
        ELSE counted

\* one iteration of the first pass
Visit(entries, i, st) ==
    LET e == entries[i]
        isTargetFile == IsTargetFile(e.path)
        uncompressedSize == OrZero(e.uncompressedSize)
        seen == [st EXCEPT !.scanned = i]
        counted == [seen EXCEPT !.total = @ + uncompressedSize]
    IN  IF ~isSafePath(e.path, isTargetFile)
        THEN [seen EXCEPT !.warned = IF isTargetFile THEN @ \cup {i} ELSE @]
        ELSE IF e.dir THEN seen
        ELSE IF TooMuchData(counted.total) THEN [counted EXCEPT !.error = "tooMuchData"]
        ELSE IF uncompressedSize > MAX_JSON_TEXT_SIZE
        THEN [counted EXCEPT !.error = "entryTooLarge"]
        ELSE IF isTargetFile THEN [counted EXCEPT !.jsonFile = Some(i)]
        ELSE counted

\* the loop going on once conversations.json has been found
Continue_UntilFound(st) == st.error = "none" /\ st.jsonFile = None

\* the loop goes on until an iteration throws
Continue(st) == st.error = "none"

RECURSIVE FirstPass(_, _, _)
FirstPass(entries, i, st) ==
    IF i > Len(entries) \/ ~Continue(st) THEN st
    ELSE FirstPass(entries, i + 1, Visit(entries, i, st))

IdleZip ==
    [pc |-> "idle", file |-> [size |-> 0, entries |-> <<>>], pass |-> NoPass,
     decompressed |-> <<>>, result |-> "none", value |-> <<>>]

Thrown(error) == [zip EXCEPT !.pc = "done", !.result = error]

\* extractConversationsJson(file, limits) up to the await of file.arrayBuffer()
ExtractCall ==
    /\ zip.pc = "called"
    /\ zip' = IF zip.file.size > MAX_ZIP_SIZE THEN Thrown("zipTooLarge")
              ELSE [zip EXCEPT !.pc = "arrayBuffer"]
    /\ UNCHANGED <<db, dbCache, ops, done, twice, input, registry, activeExports,
                   isProcessingFiles, calls, trail, search, thisConversations, session>>

\* from the await of file.arrayBuffer() to the await of zip.loadAsync(zipData); the
\* read of the file may fail
ZipRead ==
    /\ zip.pc = "arrayBuffer"
    /\ \E ok \in BOOLEAN :
         zip' = IF ~ok THEN Thrown("unreadable")
                ELSE IF zip.file.size > MAX_ZIP_SIZE THEN Thrown("zipExceeds")
                ELSE [zip EXCEPT !.pc = "loadAsync"]
    /\ UNCHANGED <<db, dbCache, ops, done, twice, input, registry, activeExports,
                   isProcessingFiles, calls, trail, search, thisConversations, session>>

\* from the await of zip.loadAsync(zipData) to the await of jsonFile.async('string'):
\* the first pass; JSZip may reject the data
ZipLoaded ==
    /\ zip.pc = "loadAsync"
    /\ \E ok \in BOOLEAN :
         LET pass == FirstPass(zip.file.entries, 1, NoPass)
             passed == [zip EXCEPT !.pass = pass]
         IN  zip' = IF ~ok THEN Thrown("unreadable")
                    ELSE IF pass.error # "none"
                    THEN [passed EXCEPT !.pc = "done", !.result = pass.error]
                    ELSE IF pass.jsonFile = None
                    THEN [passed EXCEPT !.pc = "done", !.result = "notFound"]
                    ELSE [passed EXCEPT !.pc = "async",
                                        !.decompressed = Append(@, pass.jsonFile[1])]
    /\ UNCHANGED <<db, dbCache, ops, done, twice, input, registry, activeExports,
                   isProcessingFiles, calls, trail, search, thisConversations, session>>

\* from the await of jsonFile.async('string') to the return; the decompression may fail
ZipDecompressed ==
    /\ zip.pc = "async"
    /\ \E ok \in BOOLEAN :
         LET jsonText == zip.file.entries[zip.pass.jsonFile[1]].text
         IN  zip' = IF ~ok THEN Thrown("unreadable")
                    ELSE IF jsonText.length > MAX_JSON_TEXT_SIZE THEN Thrown("contentTooLarge")
                    ELSE IF jsonText.kind = "error" THEN Thrown("invalidJson")
                    ELSE IF jsonText.kind # "array" THEN Thrown("invalidFormat")
                    ELSE [zip EXCEPT !.pc = "done", !.result = "ok",
                                     !.value = jsonText.conversations]
    /\ UNCHANGED <<db, dbCache, ops, done, twice, input, registry, activeExports,
                   isProcessingFiles, calls, trail, search, thisConversations, session>>

(***************************************************************************)
(* database.js: globalSearch, searchAllConversations, searchInConversation  *)
(***************************************************************************)
\* a title that is null in the export: not a string
NullTitle == <<"null">>

\* title "Ax", one message "a"
G1 == Conversation("c1", <<"A", "x">>, Some(1), Some(1),
        Some(<<Node("n1", Some("user"), Some(<< <<"a">> >>), Some(1))>>))
\* title "x", messages "a", "xA" and "aa"
G2 == Conversation("c2", <<"x">>, Some(2), Some(1),
        Some(<<Node("n1", Some("user"), Some(<< <<"a">> >>), Some(1)),
               Node("n2", Some("assistant"), Some(<< <<"x", "A">> >>), Some(2)),
               Node("n3", Some("user"), Some(<< <<"a", "a">> >>), Some(3))>>))
\* title "a", one message "x"
G3 == Conversation("c3", <<"a">>, Some(3), Some(1),
        Some(<<Node("n1", Some("user"), Some(<< <<"x">> >>), Some(1))>>))
\* title "a", no create_time, no mapping
G4 == Conversation("c4", <<"a">>, None, Some(1), None)
\* a conversation whose title is null
G5 == Conversation("c5", NullTitle, Some(1), Some(1),
        Some(<<Node("n1", Some("user"), Some(<< <<"a">> >>), Some(1))>>))

\* n characters c
Repeat(c, n) == [i \in 1..n |-> c]

\* title "y"; messages with "a" after 60 and before 60 characters, after 61 and before
\* 61, at the start of 62 and at the end of 62
G6 == Conversation("c6", <<"y">>, Some(4), Some(1),
        Some(<<Node("n1", Some("user"),
                    Some(<<Repeat("y", 60) \o <<"a">> \o Repeat("y", 60)>>), Some(1)),
               Node("n2", Some("user"),
                    Some(<<Repeat("y", 61) \o <<"A">> \o Repeat("y", 61)>>), Some(2)),
               Node("n3", Some("user"), Some(<< <<"a">> \o Repeat("y", 61)>>), Some(3)),
               Node("n4", Some("user"), Some(<<Repeat("y", 61) \o <<"a">>>>), Some(4))>>))

SearchBatches == {<<G1, G2, G3>>, <<G3, G4>>, <<G5>>, <<G6>>}

MaxStores == 2

MaxResumed == 3     \* registry entries found when the page loads

RECURSIVE StoredAll(_)
\* the database after storeConversations(batch, false, {}, exportId) has completed for
\* each of the batches in turn
StoredAll(batches) ==
    IF batches = <<>> THEN EmptyDatabase
    ELSE LET before == StoredAll(SubSeq(batches, 1, Len(batches) - 1))
             d == DedupBatch(batches[Len(batches)], None)
         IN  BulkPutMessages(BulkPutConversations(before, d.cmap), d.map)

\* the export whose partition the searches of SpecSearch read, and one never stored to
SearchExport == generateExportId(F1)
EmptyExport == generateExportId(F2)
\* a second export whose partition holds conversations
OtherExport == generateExportId(F6)

SearchQueries == {<<>>, <<" ">>, <<"a">>, <<"A">>, <<"x">>}

SearchExportLists ==
    {<<>>, <<SearchExport>>, <<EmptyExport, SearchExport>>,
     <<SearchExport, OtherExport>>, <<OtherExport, SearchExport>>}

\* only the first of the exports searched
SearchExports_FirstOnly(exportIds) ==
    IF Len(exportIds) > 0 THEN <<exportIds[1]>> ELSE <<None>>

\* exportIds.length > 0 ? exportIds : [null]
SearchExports(exportIds) == IF Len(exportIds) > 0 THEN exportIds ELSE <<None>>

\* lowerContent.indexOf(lowerQuery)
IndexOf(hay, needle) ==
    LET at == {i \in 0..(Len(hay) - Len(needle)) : SubSeq(hay, i + 1, i + Len(needle)) = needle}
    IN  IF at = {} THEN -1 ELSE CHOOSE i \in at : \A j \in at : i <= j

\* the context with an ellipsis put wherever the window touches an end of the content
Context_EllipsisAtEdge(content, index, queryLength) ==
    LET contextStart == IF index - 60 > 0 THEN index - 60 ELSE 0
        contextEnd == IF index + queryLength + 60 < Len(content)
                      THEN index + queryLength + 60 ELSE Len(content)
        dots == <<".", ".", ".">>
    IN  (IF index - 60 >= 0 THEN dots ELSE <<>>)
        \o SubSeq(content, contextStart + 1, contextEnd)
        \o (IF index + queryLength + 60 <= Len(content) THEN dots ELSE <<>>)

\* the context of a match: 60 characters to each side, with ... where it was cut
Context(content, index, queryLength) ==
    LET contextStart == IF index - 60 > 0 THEN index - 60 ELSE 0
        contextEnd == IF index + queryLength + 60 < Len(content)
                      THEN index + queryLength + 60 ELSE Len(content)
        dots == <<".", ".", ".">>
    IN  (IF contextStart > 0 THEN dots ELSE <<>>)
        \o SubSeq(content, contextStart + 1, contextEnd)
        \o (IF contextEnd < Len(content) THEN dots ELSE <<>>)

\* the messageMatches of a conversation: one entry per message the filter returned
MessageMatches(messages, query) ==
    LET Found(m) == IndexOf(ToLowerCase(m.content), ToLowerCase(query)) # -1
        found == SelectSeq(messages, Found)
    IN  [k \in 1..Len(found) |->
            LET index == IndexOf(ToLowerCase(found[k].content), ToLowerCase(query))
            IN  [message_id |-> found[k].message_id, role |-> found[k].role,
                 context |-> Context(found[k].content, index, Len(query)),
                 create_time |-> found[k].create_time, matchIndex |-> index]]

\* conv.title.toLowerCase().includes(lowerQuery), for a title that is a string
TitleMatch(conv, query) == Includes(ToLowerCase(conv.title), ToLowerCase(query))

\* the comparator with the number of message matches compared before the title match
Compare_CountFirst(a, b) ==
    IF Len(a.messageMatches) # Len(b.messageMatches)
    THEN Len(b.messageMatches) - Len(a.messageMatches)
    ELSE IF a.titleMatch /\ ~b.titleMatch THEN -1
    ELSE IF ~a.titleMatch /\ b.titleMatch THEN 1
    ELSE OrZero(b.conversation.create_time) - OrZero(a.conversation.create_time)

\* the comparator of results.sort
Compare(a, b) ==
    IF a.titleMatch /\ ~b.titleMatch THEN -1
    ELSE IF ~a.titleMatch /\ b.titleMatch THEN 1
    ELSE IF Len(a.messageMatches) # Len(b.messageMatches)
    THEN Len(b.messageMatches) - Len(a.messageMatches)
    ELSE OrZero(b.conversation.create_time) - OrZero(a.conversation.create_time)

RECURSIVE SortResults(_)
\* results.sort(comparator), a stable sort
SortResults(results) ==
    IF results = <<>> THEN <<>>
    ELSE LET sorted == SortResults(SubSeq(results, 1, Len(results) - 1))
             x == results[Len(results)]
             k == Cardinality({i \in 1..Len(sorted) : Compare(sorted[i], x) <= 0})
         IN  SubSeq(sorted, 1, k) \o <<x>> \o SubSeq(sorted, k + 1, Len(sorted))

RECURSIVE SortByCreateTimeDescending(_)
\* array.sort((a, b) => (b.create_time || 0) - (a.create_time || 0)), a stable sort
SortByCreateTimeDescending(rows) ==
    IF rows = <<>> THEN <<>>
    ELSE LET sorted == SortByCreateTimeDescending(SubSeq(rows, 1, Len(rows) - 1))
             x == rows[Len(rows)]
             k == Cardinality({i \in 1..Len(sorted) :
                        OrZero(sorted[i].create_time) >= OrZero(x.create_time)})
         IN  SubSeq(sorted, 1, k) \o <<x>> \o SubSeq(sorted, k + 1, Len(sorted))

IdleSearch ==
    [pc |-> "idle", op |-> "none", query |-> <<>>, conversationId |-> "none",
     exportIds |-> <<>>, ex |-> 0, all |-> <<>>, i |-> 0, titleMatch |-> FALSE,
     results |-> <<>>, reads |-> <<>>, result |-> <<>>, rejected |-> FALSE]

SearchFrame ==
    UNCHANGED <<db, ops, done, twice, input, registry, activeExports, isProcessingFiles,
                calls, trail, zip, thisConversations, session>>

\* the call rejects: a TypeError of the callback, or a request on a closed database
SearchRejected(s) == [s EXCEPT !.pc = "done", !.rejected = TRUE, !.result = <<>>]

\* the database of the export the search is reading
SearchDbName(s) == GetDbName(SearchExports(s.exportIds)[s.ex])

\* searchAllConversations(query, exportId), searchInConversation(conversationId, query,
\* exportId) and globalSearch(query, exportIds) up to the first await, or to the return
\* for a blank query
SearchCall(op, conversationId, query, exportIds) ==
    LET s == [IdleSearch EXCEPT !.op = op, !.query = query, !.exportIds = exportIds,
                                !.conversationId = conversationId]
        reading == [s EXCEPT !.ex = 1,
                             !.pc = IF op = "globalSearch" THEN "conversations" ELSE "filter"]
    IN  /\ search.pc = "idle"
        /\ IF Blank(query)
           THEN /\ search' = [s EXCEPT !.pc = "done"]
                /\ dbCache' = dbCache
           ELSE /\ search' = reading
                /\ dbCache' = CacheAfterGet(SearchDbName(reading))
        /\ SearchFrame

\* searchAllConversations and searchInConversation from the await of toArray() to the
\* return
SearchFiltered ==
    LET name == SearchDbName(search)
        read == [search EXCEPT !.reads = Append(@, name)]
        TitleHit(conv) == TitleMatch(conv, search.query)
    IN  /\ search.pc = "filter"
        /\ search' =
             IF ClosedHandle(name) THEN SearchRejected(search)
             ELSE IF search.op = "searchInConversation"
             THEN [read EXCEPT !.pc = "done",
                     !.result = SearchInConversationOf(db[name], search.conversationId,
                                                       search.query)]
             ELSE IF \E k \in 1..Len(db[name].conversations) :
                        db[name].conversations[k].title = NullTitle
             THEN SearchRejected(read)
             ELSE [read EXCEPT !.pc = "done",
                     !.result = SortByCreateTimeDescending(
                                    SelectSeq(db[name].conversations, TitleHit))]
        /\ UNCHANGED dbCache
        /\ SearchFrame

\* globalSearch from a point of its loops to the next await or to the return: the next
\* conversation of the export, else the next export, else the sorted results
Advance(s) ==
    IF s.i <= Len(s.all)
    THEN IF s.all[s.i].title = NullTitle THEN SearchRejected(s)
         ELSE [s EXCEPT !.pc = "messages", !.titleMatch = TitleMatch(s.all[s.i], s.query)]
    ELSE IF s.ex < Len(SearchExports(s.exportIds))
    THEN [s EXCEPT !.pc = "conversations", !.ex = @ + 1, !.all = <<>>, !.i = 0]
    ELSE [s EXCEPT !.pc = "done", !.result = SortResults(s.results), !.all = <<>>, !.i = 0,
                   !.results = <<>>, !.titleMatch = FALSE]

\* getDatabase(exportId) of the export the search has moved on to
CacheAfterAdvance(s) ==
    IF s.pc = "conversations" THEN CacheAfterGet(SearchDbName(s)) ELSE dbCache

\* globalSearch from the await of db.conversations.toArray()
GlobalSearchConversations ==
    LET name == SearchDbName(search)
        next == Advance([search EXCEPT !.reads = Append(@, name),
                                       !.all = db[name].conversations, !.i = 1])
    IN  /\ search.pc = "conversations"
        /\ search' = IF ClosedHandle(name) THEN SearchRejected(search) ELSE next
        /\ dbCache' = IF ClosedHandle(name) THEN dbCache ELSE CacheAfterAdvance(next)
        /\ SearchFrame

\* globalSearch from the await of the messages query of a conversation
GlobalSearchMessages ==
    LET name == SearchDbName(search)
        conv == search.all[search.i]
        messages == SearchInConversationOf(db[name], conv.conversation_id, search.query)
        result == [conversation |->
                       [exportId |-> SearchExports(search.exportIds)[search.ex]] @@ conv,
                   titleMatch |-> search.titleMatch,
                   messageMatches |-> MessageMatches(messages, search.query)]
        next == Advance([search EXCEPT
                    !.reads = Append(@, name),
                    !.results = IF result.titleMatch \/ Len(result.messageMatches) > 0
                                THEN Append(@, result) ELSE @,
                    !.titleMatch = FALSE,
                    !.i = @ + 1])
    IN  /\ search.pc = "messages"
        /\ search' = IF ClosedHandle(name) THEN SearchRejected(search) ELSE next
        /\ dbCache' = IF ClosedHandle(name) THEN dbCache ELSE CacheAfterAdvance(next)
        /\ SearchFrame

(***************************************************************************)
(* Init: the state once database.js has been loaded (defaultDb =            *)
(* getDatabase(null)) and ChatGPTExplorer has been constructed on an empty  *)
(* origin                                                                   *)
(***************************************************************************)
InitCommon ==
    /\ db = [n \in DbNames |-> EmptyDatabase]
    /\ dbCache = [n \in DbNames |-> IF n = LegacyName THEN "open" ELSE "none"]
    /\ ops = [o \in OpIds |-> IdleOp]
    /\ done = NoDone
    /\ twice = NoTwice
    /\ registry = <<>>
    /\ activeExports = <<>>
    /\ isProcessingFiles = FALSE
    /\ calls = [c \in CallIds |-> IdleCall]
    /\ trail = NoTrail
    /\ thisConversations = <<>>
    /\ session = IdleSession

NoInput == [batch |-> <<>>, limit |-> None]

Init == InitCommon /\ input = NoInput /\ zip = IdleZip /\ search = IdleSearch

\* the calls of the store manager's API, made in any order and overlapping.  The
\* conversation id of a read has no part in the state the read leaves; what a read
\* returns is defined in every state for every id by the ...Result operators.
Next ==
    \/ \E o \in OpIds, batch \in ApiBatches, e \in Handles : StoreCall(o, batch, None, e)
    \/ \E o \in OpIds : StorePutMessages(o)
    \/ \E o \in OpIds, e \in Handles : ClearAllCall(o, e)
    \/ \E o \in OpIds : ClearAllMessages(o)
    \/ \E o \in OpIds, e \in Handles : DeleteDatabaseCall(o, e)
    \/ \E o \in OpIds : DeleteDatabaseUncache(o)
    \/ \E o \in OpIds, e \in Handles : GetStatsCall(o, e)
    \/ \E o \in OpIds : GetStatsMessages(o)
    \/ \E e \in Handles : GetConversations(e)
    \/ \E e \in Handles : GetConversationMessages("c1", e)
    \/ \E q \in Queries, e \in Handles : SearchInConversation("c1", q, e)

Spec == Init /\ [][Next]_vars

\* one storeConversations call on the empty legacy database, for a batch and a
\* limit drawn from all the bounded inputs
InitFlatten ==
    /\ InitCommon
    /\ input \in [batch : Batches, limit : Limits]
    /\ zip = IdleZip
    /\ search = IdleSearch

NextFlatten ==
    \/ StoreCall(1, input.batch, input.limit, None)
    \/ StorePutMessages(1)

SpecFlatten == InitFlatten /\ [][NextFlatten]_vars

\* the user's imports: drops, file selections and processFile calls, made at any time
NextUI ==
    \/ \E c \in CallIds, src \in Sources, files \in SeqsUpTo(FilePool, MaxFiles) :
            ProcessFilesCall(c, src, files)
    \/ \E c \in CallIds : LoadExisting(c)
    \/ \E c \in CallIds : Extracted(c)
    \/ \E c \in CallIds : PutMessages(c)
    \/ \E c \in CallIds : Stats(c)
    \/ \E c \in CallIds : Reload(c)

SpecUI == Init /\ [][NextUI]_vars

(***************************************************************************)
(* export-manager.js: the registry functions, called in any order           *)
(***************************************************************************)
\* a.zip of the same size and modification time as F1, with other content
F9 == File(<<"a", ".", "z", "i", "p">>, 1, 1, ArrayPayload(<<K3, K4>>))
\* Aa.zip and BB.zip, of the same size and modification time
F10 == File(<<"A", "a", ".", "z", "i", "p">>, 1, 1, ArrayPayload(<<K1>>))
F11 == File(<<"B", "B", ".", "z", "i", "p">>, 1, 1, ArrayPayload(<<K6>>))

IdentityPool == {F1, F9, F10, F11}

\* removeExportFromRegistry finding the entry and saving the registry as it was
removeExportFromRegistry_Keep(reg, exportId) == reg

\* registry.splice(index, 1) at the first record with the id, if there is one
removeExportFromRegistry(reg, exportId) ==
    LET at == {i \in 1..Len(reg) : reg[i].id = exportId}
        index == CHOOSE i \in at : \A j \in at : i <= j
    IN  IF at = {} THEN reg
        ELSE SubSeq(reg, 1, index - 1) \o SubSeq(reg, index + 1, Len(reg))

RegistryFrame ==
    UNCHANGED <<db, dbCache, ops, done, twice, input, activeExports, isProcessingFiles, calls,
                trail, zip, search, thisConversations>>

\* what a registry call leaves of the call before it
Called(op) ==
    [session EXCEPT !.op = op, !.file = None, !.exportId = None, !.returned = None,
                    !.threw = FALSE]

GenerateExportId(file) ==
    /\ session' = [Called("generateExportId") EXCEPT
                      !.file = Some(file),
                      !.returned = Some(generateExportId(file)),
                      !.issued = @ \cup {[file |-> file, id |-> generateExportId(file)]}]
    /\ UNCHANGED registry
    /\ RegistryFrame

FindExportByFile(file) ==
    /\ session' = [Called("findExportByFile") EXCEPT
                      !.file = Some(file),
                      !.returned = findExportByFile(registry, file)]
    /\ UNCHANGED registry
    /\ RegistryFrame

\* addExportToRegistry(file, exportId); saveExportRegistry throws when setItem does
AddExportToRegistry(file, exportId, saved) ==
    LET call == [Called("addExportToRegistry") EXCEPT !.file = Some(file),
                                                      !.exportId = Some(exportId)]
        after == addExportToRegistry(registry, file, exportId)
        at == CHOOSE i \in 1..Len(after) : after[i].id = exportId
    IN  IF Registered(registry, exportId) \/ saved
        THEN /\ registry' = after
             /\ session' = [call EXCEPT !.returned = Some(after[at])]
             /\ RegistryFrame
        ELSE /\ session' = [call EXCEPT !.threw = TRUE]
             /\ UNCHANGED registry
             /\ RegistryFrame

\* removeExportFromRegistry(exportId): false when no record has the id
RemoveExportFromRegistry(exportId, saved) ==
    LET call == [Called("removeExportFromRegistry") EXCEPT !.exportId = Some(exportId)]
    IN  IF ~Registered(registry, exportId)
        THEN /\ session' = [call EXCEPT !.returned = Some(FALSE)]
             /\ UNCHANGED registry
             /\ RegistryFrame
        ELSE IF saved
        THEN /\ registry' = removeExportFromRegistry(registry, exportId)
             /\ session' = [call EXCEPT !.returned = Some(TRUE)]
             /\ RegistryFrame
        ELSE /\ session' = [call EXCEPT !.threw = TRUE]
             /\ UNCHANGED registry
             /\ RegistryFrame

\* clearExportRegistry(): saveExportRegistry([])
ClearExportRegistry(saved) ==
    /\ session' = [Called("clearExportRegistry") EXCEPT !.threw = ~saved]
    /\ registry' = IF saved THEN <<>> ELSE registry
    /\ RegistryFrame

\* the identities a caller holds: those generateExportId has returned
Issued == {e.id : e \in session.issued}

NextRegistry ==
    \/ \E file \in IdentityPool : GenerateExportId(file)
    \/ \E file \in IdentityPool : FindExportByFile(file)
    \/ \E file \in IdentityPool, exportId \in Issued, saved \in BOOLEAN :
            AddExportToRegistry(file, exportId, saved)
    \/ \E exportId \in Issued, saved \in BOOLEAN : RemoveExportFromRegistry(exportId, saved)
    \/ \E saved \in BOOLEAN : ClearExportRegistry(saved)

(***************************************************************************)
(* main.js: ChatGPTExplorer.resumeExports, run by init() when the page loads *)
(***************************************************************************)
ResumeFrame ==
    UNCHANGED <<db, ops, done, twice, input, registry, isProcessingFiles, calls, trail, zip,
                search>>

\* resumeExports up to its first await: of loadConversationsFromDB when the registry is
\* empty, else of getAllConversationsFromExports
ResumeExports ==
    /\ session.pc = "idle"
    /\ activeExports' = [k \in 1..Len(registry) |-> registry[k].id]
    /\ session' = [session EXCEPT !.op = "resumeExports",
                                  !.pc = IF registry = <<>> THEN "legacy" ELSE "aggregate"]
    /\ UNCHANGED <<dbCache, thisConversations>>
    /\ ResumeFrame

\* resumeExports from the await of getAllConversationsFromExports to its return
ResumeLoaded ==
    LET allConversations == getAllConversationsFromExports(activeExports)
    IN  /\ session.pc = "aggregate"
        /\ thisConversations' = allConversations
        /\ dbCache' = OpenAll(dbCache, activeExports)
        /\ session' = [session EXCEPT !.pc = "done",
                                      !.outcome = "resumed",
                                      !.rendered = Len(allConversations) > 0]
        /\ UNCHANGED activeExports
        /\ ResumeFrame

\* loadConversationsFromDB(false) from the await of getConversations() to its return
LoadConversationsFromDB ==
    /\ session.pc = "legacy"
    /\ IF Fails(LegacyName)
       THEN /\ thisConversations' = <<>>
            /\ session' = [session EXCEPT !.pc = "done", !.outcome = "legacy",
                                          !.message = "error"]
       ELSE /\ thisConversations' = ConversationsOf(db[LegacyName])
            /\ session' = [session EXCEPT !.pc = "done", !.outcome = "legacy",
                                          !.rendered = ConversationsOf(db[LegacyName]) # <<>>]
    /\ UNCHANGED <<dbCache, activeExports>>
    /\ ResumeFrame

\* the files of earlier sessions
ResumedFiles == {F1, F2, F6}

\* the partition of a file once processFiles has stored it
StoredFile(f) == StoredAll(<<f.payload.conversations>>)

\* the page is loaded on an origin where earlier sessions registered and stored some
\* files: the registry lists them in some order, a partition holds what was stored or
\* has been deleted since, and some databases cannot be opened
InitResume ==
    /\ \E files \in {fs \in SeqsUpTo(ResumedFiles, MaxResumed) : Distinct(fs)} :
          /\ registry = [k \in 1..Len(files) |->
                            ExportData(files[k], generateExportId(files[k]))]
          /\ \E deleted \in SUBSET {files[k] : k \in 1..Len(files)},
                legacy \in {EmptyDatabase, StoredFile(F8)} :
                db = [n \in DbNames |->
                        IF n = LegacyName THEN legacy
                        ELSE IF \E k \in 1..Len(files) :
                                   /\ n = GetDbName(generateExportId(files[k]))
                                   /\ files[k] \notin deleted
                        THEN StoredFile(CHOOSE f \in ResumedFiles : n = GetDbName(generateExportId(f)))
                        ELSE EmptyDatabase]
          /\ \E unopenable \in SUBSET ({LegacyName} \cup
                                        {GetDbName(generateExportId(files[k])) : k \in 1..Len(files)}) :
                session = [IdleSession EXCEPT !.unopenable = unopenable]
    /\ dbCache = [n \in DbNames |-> IF n = LegacyName THEN "open" ELSE "none"]
    /\ ops = [o \in OpIds |-> IdleOp]
    /\ done = NoDone
    /\ twice = NoTwice
    /\ activeExports = <<>>
    /\ isProcessingFiles = FALSE
    /\ calls = [c \in CallIds |-> IdleCall]
    /\ trail = NoTrail
    /\ input = NoInput
    /\ zip = IdleZip
    /\ search = IdleSearch
    /\ thisConversations = <<>>

NextResume ==
    \/ ResumeExports
    \/ ResumeLoaded
    \/ LoadConversationsFromDB

SpecResume == InitResume /\ [][NextResume]_vars

SpecRegistry == Init /\ [][NextRegistry]_vars

(***************************************************************************)
(* main.js: ChatGPTExplorer.selectConversation.  Time is counted in seconds  *)
(* from the setTimeout of the call.                                         *)
(***************************************************************************)
\* setTimeout(() => reject(new Error('Database query timeout')), 30000), in seconds
QUERY_TIMEOUT == 30

\* the timer of the call is never due
TimerDue_Never(timer) == FALSE

\* the timer set by the call is due
TimerDue(timer) == timer = QUERY_TIMEOUT

SelectFrame ==
    UNCHANGED <<db, ops, done, twice, input, registry, activeExports, isProcessingFiles,
                calls, trail, zip, search, thisConversations>>

\* the catch and the finally of selectConversation
SelectFailed(message) ==
    [session EXCEPT !.pc = "done", !.outcome = "error", !.message = message,
                    !.content = "cleared", !.loading = FALSE]

\* selectConversation(conversation) up to the await of Promise.race
SelectConversation(conversation) ==
    /\ session.pc = "idle"
    /\ session' = [session EXCEPT !.op = "selectConversation", !.pc = "race",
                                  !.conversation = Some(conversation),
                                  !.fetch = "pending", !.timer = 0, !.loading = TRUE]
    /\ dbCache' = CacheAfterGet(GetDbName(conversation.exportId))
    /\ SelectFrame

\* a second passes while the call waits
Tick ==
    /\ session.pc = "race"
    /\ session.timer < QUERY_TIMEOUT
    /\ session' = [session EXCEPT !.timer = @ + 1]
    /\ UNCHANGED dbCache
    /\ SelectFrame

\* getConversationMessages settles first: the messages are rendered, or the rejection
\* of the query or an error of the renderer is shown
MessagesSettle ==
    LET conversation == session.conversation[1]
        messages == GetConversationMessagesResult(conversation.conversation_id,
                                                  conversation.exportId)
    IN  /\ session.pc = "race"
        /\ \E rendered \in BOOLEAN :
             session' =
                IF ~messages.ok THEN [SelectFailed("queryError") EXCEPT !.fetch = "rejected"]
                ELSE IF ~rendered THEN [SelectFailed("renderError") EXCEPT !.fetch = "resolved"]
                ELSE [session EXCEPT !.pc = "done", !.outcome = "shown",
                                     !.fetch = "resolved", !.content = "messages",
                                     !.shown = messages.rows, !.loading = FALSE]
        /\ UNCHANGED dbCache
        /\ SelectFrame

\* the timer fires first: the race rejects with 'Database query timeout'
TimeoutFires ==
    /\ session.pc = "race"
    /\ TimerDue(session.timer)
    /\ session' = [SelectFailed("timeout") EXCEPT !.outcome = "timeout"]
    /\ UNCHANGED dbCache
    /\ SelectFrame

\* the query settles after the race is over: nobody reads its result
MessagesSettleLate ==
    /\ session.pc = "done"
    /\ session.fetch = "pending"
    /\ session' = [session EXCEPT !.fetch = "settled"]
    /\ UNCHANGED dbCache
    /\ SelectFrame

\* the conversations a user can click: those of the legacy database and of an export
Selectable ==
    {[conversation_id |-> r.conversation_id, title |-> r.title, exportId |-> e] :
        e \in {None, SearchExport},
        r \in Rows(db[LegacyName].conversations) \cup Rows(db[GetDbName(SearchExport)].conversations)}

\* the page shows what earlier imports stored; the handle of the export may have been
\* closed by a deleteDatabase
InitSelect ==
    /\ \E export \in {StoredAll(<<b>>) : b \in SearchBatches} :
          db = [n \in DbNames |->
                  IF n = LegacyName THEN StoredAll(<< <<G1, G2, G3>> >>)
                  ELSE IF n = GetDbName(SearchExport) THEN export
                  ELSE EmptyDatabase]
    /\ \E handle \in {"open", "closed"} :
          dbCache = [n \in DbNames |->
                       IF n = LegacyName THEN "open"
                       ELSE IF n = GetDbName(SearchExport) THEN handle ELSE "none"]
    /\ ops = [o \in OpIds |-> IdleOp]
    /\ done = NoDone
    /\ twice = NoTwice
    /\ registry = <<>>
    /\ activeExports = <<>>
    /\ isProcessingFiles = FALSE
    /\ calls = [c \in CallIds |-> IdleCall]
    /\ trail = NoTrail
    /\ input = NoInput
    /\ zip = IdleZip
    /\ search = IdleSearch
    /\ thisConversations = <<>>
    /\ session = IdleSession

NextSelect ==
    \/ \E conversation \in Selectable : SelectConversation(conversation)
    \/ Tick
    \/ MessagesSettle
    \/ TimeoutFires
    \/ MessagesSettleLate

SpecSelect == InitSelect /\ [][NextSelect]_vars

\* the timer runs and fires, whatever the query does
SpecSelectLive == SpecSelect /\ WF_vars(Tick) /\ WF_vars(TimeoutFires)

(***************************************************************************)
(* main.js: selectConversation called again while a call awaits its race.   *)
(* The page has one currentConversation, one message pane and one loading   *)
(* indicator; each call has its own conversation, query and timer.          *)
(***************************************************************************)
\* slot i is the next one to use
FreeSelect(i) ==
    /\ session.selects[i].pc = "idle"
    /\ \A q \in SelectIds : q < i => session.selects[q].pc # "idle"

\* the catch and the finally of call i
OverlapFailed(i, message, outcome) ==
    [session EXCEPT !.message = message, !.content = "cleared", !.shown = <<>>,
                    !.loading = FALSE,
                    !.selects[i].pc = "done", !.selects[i].outcome = outcome]

\* call i of selectConversation(conversation) up to the await of Promise.race
OverlapSelect(i, conversation) ==
    /\ FreeSelect(i)
    /\ session' = [session EXCEPT !.op = "selectConversation",
                                  !.conversation = Some(conversation),
                                  !.loading = TRUE,
                                  !.selects[i] = [pc |-> "race",
                                                  conversation |-> Some(conversation),
                                                  outcome |-> "none"]]
    /\ dbCache' = CacheAfterGet(GetDbName(conversation.exportId))
    /\ SelectFrame

\* the query of call i settles before its timer: call i renders its messages, or shows
\* the rejection of the query or an error of the renderer and clears the pane
OverlapSettle(i) ==
    LET conversation == session.selects[i].conversation[1]
        messages == GetConversationMessagesResult(conversation.conversation_id,
                                                  conversation.exportId)
    IN  /\ session.selects[i].pc = "race"
        /\ \E rendered \in BOOLEAN :
             session' =
                IF ~messages.ok THEN OverlapFailed(i, "queryError", "error")
                ELSE IF ~rendered THEN OverlapFailed(i, "renderError", "error")
                ELSE [session EXCEPT !.content = "messages", !.shown = messages.rows,
                                     !.loading = FALSE,
                                     !.selects[i].pc = "done",
                                     !.selects[i].outcome = "shown"]
        /\ UNCHANGED dbCache
        /\ SelectFrame

\* the timer of call i fires before its query settles; the timers fire in the order
\* in which the calls set them
OverlapTimeout(i) ==
    /\ session.selects[i].pc = "race"
    /\ \A q \in SelectIds : q < i => session.selects[q].pc # "race"
    /\ session' = OverlapFailed(i, "timeout", "timeout")
    /\ UNCHANGED dbCache
    /\ SelectFrame

NextOverlap ==
    \/ \E i \in SelectIds, conversation \in Selectable : OverlapSelect(i, conversation)
    \/ \E i \in SelectIds : \/ OverlapSettle(i)
                            \/ OverlapTimeout(i)

SpecOverlap == InitSelect /\ [][NextOverlap]_vars

(***************************************************************************)
(* main.js: ChatGPTExplorer.removeExport and clearData, run while the page  *)
(* resumes and while batches are ingested                                   *)
(***************************************************************************)
ManageFrame == UNCHANGED <<ops, done, twice, input, isProcessingFiles, trail, zip, search>>

\* slot s is the next one to use
FreeManage(s) ==
    /\ session.manage[s].pc = "idle"
    /\ \A q \in ManageIds : q < s => session.manage[q].pc # "idle"

\* the call is over
Over(slot, message) ==
    [slot EXCEPT !.pc = "done", !.message = message, !.live = FALSE, !.list = <<>>, !.k = 0]

\* this.activeExports.filter(id => id !== exportId), keeping every id
Without_Keep(exports, exportId) == exports

\* this.activeExports.filter(id => id !== exportId)
Without(exports, exportId) ==
    LET Other(id) == id # exportId
    IN  SelectSeq(exports, Other)

\* the array a suspended call iterates
Iterated(slot) == IF slot.live THEN activeExports ELSE slot.list

\* this.activeExports is assigned a new array: the calls that iterate the old one keep it
Captured(manage) ==
    [q \in ManageIds |-> IF manage[q].live
                         THEN [manage[q] EXCEPT !.live = FALSE, !.list = activeExports]
                         ELSE manage[q]]

\* db.delete() closes the cached instance: the batches that hold it for a read or a
\* write in flight hold a closed connection from now on
CloseBatches(cache, name) ==
    [c \in CallIds |-> IF /\ calls[c].pc \in {"loadExisting", "putMessages"}
                          /\ GetDbName(calls[c].exportId) = name
                          /\ cache[name] # "none"
                       THEN [calls[c] EXCEPT !.closed = TRUE]
                       ELSE calls[c]]

\* deleteDatabase(exportId) up to the await of the deletion, called by slot s with the
\* cache as it is by then; a deletion that is rejected ends the caller in its catch
DeleteIssued(s, slot, cache, exportId, manage) ==
    LET name == DeleteDbName(exportId)
        cached == cache[name] # "none"
    IN  \E ok \in BOOLEAN :
          /\ dbCache' = IF cached THEN [cache EXCEPT ![name] = "closed"] ELSE cache
          /\ calls' = CloseBatches(cache, name)
          /\ db' = IF ok THEN [db EXCEPT ![name] = EmptyDatabase] ELSE db
          /\ session' = [session EXCEPT !.manage =
                [manage EXCEPT ![s] = IF ok THEN [slot EXCEPT !.pc = "deleting",
                                                             !.cached = cached]
                                      ELSE Over(slot, "error")]]

\* deleteDatabase after the await: dbCache.delete(dbName) when the instance was cached
Uncached(slot, exportId) ==
    IF slot.cached THEN [dbCache EXCEPT ![DeleteDbName(exportId)] = "none"] ELSE dbCache

\* removeExport(exportId) up to the await of deleteDatabase
RemoveExportCall(s, exportId, confirmed) ==
    LET slot == [IdleManage EXCEPT !.op = "removeExport", !.exportId = exportId]
    IN  /\ FreeManage(s)
        /\ ManageFrame
        /\ UNCHANGED <<registry, activeExports, thisConversations>>
        /\ IF ~Registered(registry, exportId)
           THEN /\ session' = [session EXCEPT !.manage[s] = Over(slot, "notFound")]
                /\ UNCHANGED <<db, dbCache, calls>>
           ELSE IF ~confirmed
           THEN /\ session' = [session EXCEPT !.manage[s] = Over(slot, "declined")]
                /\ UNCHANGED <<db, dbCache, calls>>
           ELSE DeleteIssued(s, slot, dbCache, exportId, session.manage)

\* removeExport from the await of deleteDatabase to the await of
\* getAllConversationsFromExports, or to its return when no export is left
RemoveExportDeleted(s) ==
    LET slot == session.manage[s]
        left == Without(activeExports, slot.exportId)
    IN  /\ slot.op = "removeExport" /\ slot.pc = "deleting"
        /\ ManageFrame
        /\ UNCHANGED <<db, calls>>
        /\ dbCache' = Uncached(slot, slot.exportId)
        /\ \E saved \in BOOLEAN :
             IF Registered(registry, slot.exportId) /\ ~saved
             THEN /\ session' = [session EXCEPT !.manage[s] = Over(slot, "error")]
                  /\ UNCHANGED <<registry, activeExports, thisConversations>>
             ELSE /\ registry' = removeExportFromRegistry(registry, slot.exportId)
                  /\ activeExports' = left
                  /\ IF left # <<>>
                     THEN /\ session' = [session EXCEPT !.manage =
                                [Captured(@) EXCEPT ![s] = [slot EXCEPT !.pc = "reload",
                                                                        !.live = TRUE]]]
                          /\ UNCHANGED thisConversations
                     ELSE /\ session' = [session EXCEPT !.manage =
                                [Captured(@) EXCEPT ![s] = Over(slot, "removed")]]
                          /\ thisConversations' = <<>>

\* removeExport from the await of getAllConversationsFromExports to its return
RemoveExportReloaded(s) ==
    LET slot == session.manage[s]
    IN  /\ slot.op = "removeExport" /\ slot.pc = "reload"
        /\ ManageFrame
        /\ UNCHANGED <<db, calls, registry, activeExports>>
        /\ thisConversations' = getAllConversationsFromExports(Iterated(slot))
        /\ dbCache' = OpenAll(dbCache, Iterated(slot))
        /\ session' = [session EXCEPT !.manage[s] = Over(slot, "removed")]

\* clearAll() up to the await of conversations.clear(), called by slot s
ClearIssued(s, slot, manage) ==
    \E ok \in BOOLEAN :
      /\ db' = IF ok THEN [db EXCEPT ![LegacyName] = ClearConversations(@)] ELSE db
      /\ session' = [session EXCEPT !.manage =
            [manage EXCEPT ![s] = IF ok THEN [slot EXCEPT !.pc = "clearConversations",
                                                         !.live = FALSE, !.list = <<>>]
                                  ELSE Over(slot, "error")]]

\* clearData up to its first await: of deleteDatabase for the first active export, or
\* of clearAll when there is none
ClearDataCall(s, confirmed) ==
    LET slot == [IdleManage EXCEPT !.op = "clearData", !.live = TRUE, !.k = 1]
    IN  /\ FreeManage(s)
        /\ ManageFrame
        /\ UNCHANGED <<registry, activeExports, thisConversations>>
        /\ IF ~confirmed
           THEN /\ session' = [session EXCEPT !.manage[s] = Over(slot, "declined")]
                /\ UNCHANGED <<db, dbCache, calls>>
           ELSE IF activeExports = <<>>
           THEN /\ ClearIssued(s, slot, session.manage)
                /\ UNCHANGED <<dbCache, calls>>
           ELSE DeleteIssued(s, [slot EXCEPT !.exportId = activeExports[1]], dbCache,
                             activeExports[1], session.manage)

\* clearData from the await of one deleteDatabase to the next await: of deleteDatabase
\* for the next export of the array, or of clearAll after the last one
ClearDataNext(s) ==
    LET slot == session.manage[s]
        array == Iterated(slot)
        cache == Uncached(slot, slot.exportId)
    IN  /\ slot.op = "clearData" /\ slot.pc = "deleting"
        /\ ManageFrame
        /\ UNCHANGED <<registry, activeExports, thisConversations>>
        /\ IF slot.k < Len(array)
           THEN DeleteIssued(s, [slot EXCEPT !.k = @ + 1, !.exportId = array[slot.k + 1]],
                             cache, array[slot.k + 1], session.manage)
           ELSE /\ ClearIssued(s, slot, session.manage)
                /\ dbCache' = cache
                /\ UNCHANGED calls

\* clearData from the await of conversations.clear() to the await of messages.clear()
ClearDataConversations(s) ==
    LET slot == session.manage[s]
    IN  /\ slot.op = "clearData" /\ slot.pc = "clearConversations"
        /\ ManageFrame
        /\ UNCHANGED <<registry, activeExports, thisConversations, dbCache, calls>>
        /\ \E ok \in BOOLEAN :
             /\ db' = IF ok THEN [db EXCEPT ![LegacyName] = ClearMessages(@)] ELSE db
             /\ session' = [session EXCEPT !.manage[s] =
                    IF ok THEN [slot EXCEPT !.pc = "clearMessages"] ELSE Over(slot, "error")]

\* clearData from the await of messages.clear() to its return
ClearDataMessages(s) ==
    LET slot == session.manage[s]
    IN  /\ slot.op = "clearData" /\ slot.pc = "clearMessages"
        /\ ManageFrame
        /\ UNCHANGED <<db, dbCache, calls>>
        /\ \E saved \in BOOLEAN :
             IF ~saved
             THEN /\ session' = [session EXCEPT !.manage[s] = Over(slot, "error")]
                  /\ UNCHANGED <<registry, activeExports, thisConversations>>
             ELSE /\ registry' = <<>>
                  /\ activeExports' = <<>>
                  /\ thisConversations' = <<>>
                  /\ session' = [session EXCEPT !.manage =
                        [Captured(@) EXCEPT ![s] = Over(slot, "cleared")]]

\* what one drop hands to processFiles while exports are removed
ManagedDrops == {<<F1>>, <<F2>>, <<F1, F2>>}

\* the files earlier sessions may have registered and stored
ManagedFiles == {<<>>, <<F1>>, <<F2, F1>>}

\* the page has been constructed on an origin where earlier sessions registered and
\* stored some files: init() has run resumeExports up to its first await
InitManage ==
    /\ \E files \in ManagedFiles :
          /\ registry = [k \in 1..Len(files) |->
                            ExportData(files[k], generateExportId(files[k]))]
          /\ activeExports = [k \in 1..Len(files) |-> generateExportId(files[k])]
          /\ db = [n \in DbNames |->
                      IF \E k \in 1..Len(files) : n = GetDbName(generateExportId(files[k]))
                      THEN StoredFile(CHOOSE f \in {F1, F2} : n = GetDbName(generateExportId(f)))
                      ELSE EmptyDatabase]
          /\ session = [IdleSession EXCEPT !.op = "resumeExports",
                                           !.pc = IF files = <<>> THEN "legacy"
                                                  ELSE "aggregate"]
    /\ dbCache = [n \in DbNames |-> IF n = LegacyName THEN "open" ELSE "none"]
    /\ ops = [o \in OpIds |-> IdleOp]
    /\ done = NoDone
    /\ twice = NoTwice
    /\ isProcessingFiles = FALSE
    /\ calls = [c \in CallIds |-> IdleCall]
    /\ trail = NoTrail
    /\ input = NoInput
    /\ zip = IdleZip
    /\ search = IdleSearch
    /\ thisConversations = <<>>

ManagedIds == {generateExportId(F1), generateExportId(F2)}

NextManage ==
    \/ \E files \in ManagedDrops : ProcessFilesCall(1, "drop", files)
    \/ LoadExisting(1)
    \/ Extracted(1)
    \/ PutMessages(1)
    \/ Stats(1)
    \/ Reload(1)
    \/ ResumeLoaded
    \/ LoadConversationsFromDB
    \/ \E s \in ManageIds, exportId \in ManagedIds, confirmed \in BOOLEAN :
          RemoveExportCall(s, exportId, confirmed)
    \/ \E s \in ManageIds : \/ RemoveExportDeleted(s)
                            \/ RemoveExportReloaded(s)
    \/ \E s \in ManageIds, confirmed \in BOOLEAN : ClearDataCall(s, confirmed)
    \/ \E s \in ManageIds : \/ ClearDataNext(s)
                            \/ ClearDataConversations(s)
                            \/ ClearDataMessages(s)

SpecManage == InitManage /\ [][NextManage]_vars

\* one extractConversationsJson call, for an archive drawn from all the bounded archives
InitZip ==
    /\ InitCommon
    /\ input = NoInput
    /\ search = IdleSearch
    /\ zip \in {[IdleZip EXCEPT !.pc = "called", !.file = file] : file \in Archives}

NextZip ==
    \/ ExtractCall
    \/ ZipRead
    \/ ZipLoaded
    \/ ZipDecompressed

SpecZip == InitZip /\ [][NextZip]_vars

\* an import seen from both ends: either the user's processFiles calls, or one
\* extractConversationsJson call on an archive drawn from the bounded archives
InitImport ==
    /\ InitCommon
    /\ input = NoInput
    /\ search = IdleSearch
    /\ zip \in {IdleZip} \cup {[IdleZip EXCEPT !.pc = "called", !.file = file] : file \in Archives}

NextImport ==
    \/ zip.pc = "idle" /\ NextUI
    \/ zip.pc # "idle" /\ NextZip

SpecImport == InitImport /\ [][NextImport]_vars

\* one search call on partitions that earlier storeConversations calls have filled and
\* that no call writes to while the search runs
InitSearch ==
    /\ \E legacy \in {StoredAll(bs) : bs \in SeqsUpTo(SearchBatches, MaxStores)},
          export \in {StoredAll(<<b>>) : b \in SearchBatches},
          other \in {StoredAll(<<b>>) : b \in SearchBatches} :
            db = [n \in DbNames |->
                    IF n = LegacyName THEN legacy
                    ELSE IF n = GetDbName(SearchExport) THEN export
                    ELSE IF n = GetDbName(OtherExport) THEN other
                    ELSE EmptyDatabase]
    /\ dbCache = [n \in DbNames |->
                    IF n \in {LegacyName, GetDbName(SearchExport), GetDbName(OtherExport)}
                    THEN "open" ELSE "none"]
    /\ ops = [o \in OpIds |-> IdleOp]
    /\ done = NoDone
    /\ twice = NoTwice
    /\ registry = <<>>
    /\ activeExports = <<>>
    /\ isProcessingFiles = FALSE
    /\ calls = [c \in CallIds |-> IdleCall]
    /\ trail = NoTrail
    /\ thisConversations = <<>>
    /\ session = IdleSession
    /\ input = NoInput
    /\ zip = IdleZip
    /\ search = IdleSearch

NextSearch ==
    \/ \E op \in {"searchAllConversations", "searchInConversation"}, query \in SearchQueries,
          exportIds \in {<<>>, <<SearchExport>>} :
            SearchCall(op, "c2", query, exportIds)
    \/ \E query \in SearchQueries, exportIds \in SearchExportLists :
            SearchCall("globalSearch", "none", query, exportIds)
    \/ SearchFiltered
    \/ GlobalSearchConversations
    \/ GlobalSearchMessages

SpecSearch == InitSearch /\ [][NextSearch]_vars

(***************************************************************************)
(* What the claims speak of                                                 *)
(***************************************************************************)
\* the database that holds the partition of a handle: the legacy database for null,
\* otherwise the dbName the registry records for the export
RegistryDbName(exportId) == S("ChatGPTDatabase_") \o exportId

PartitionOf(exportId) == IF exportId = None THEN LegacyName ELSE RegistryDbName(exportId)

\* the call of the API that takes a step
Acts(o) == ops'[o].pc # ops[o].pc

RECURSIVE NodesOf(_)
\* every node of a batch, tagged with the id of its conversation, in batch order
NodesOf(batch) ==
    IF batch = <<>> THEN <<>>
    ELSE LET conv == batch[1]
             nodes == IF conv.mapping = None THEN <<>> ELSE conv.mapping[1]
         IN  [i \in 1..Len(nodes) |-> [conversation_id |-> conv.id, node |-> nodes[i]]]
                \o NodesOf(Tail(batch))

HasParts(node) == node.message # None /\ node.message[1].parts # None

\* the text of a node: its parts joined by newlines
Body(node) == Join(node.message[1].parts[1], S("\n"))

\* the single call of SpecFlatten has written both tables
Flattened == ops[1].kind = "store" /\ ops[1].pc = "done"

\* the single call of SpecFlatten has written its conversations
ConversationsWritten == ops[1].kind = "store" /\ ops[1].pc \in {"putMessages", "done"}

(***************************************************************************)
(* Claims about the store manager                                           *)
(***************************************************************************)

\* C1: calling storeConversations twice in a row with the same batch, limits and
\* partition leaves the partition with the same conversation and message records,
\* and the same getStats counts, as after the first call.
C1_UpsertIdempotent ==
    twice.valid =>
        /\ twice.second.conversations = twice.first.conversations
        /\ twice.second.messages = twice.first.messages
        /\ StatsOf(twice.second) = StatsOf(twice.first)

\* C2: no partition holds two message records with the same (conversation_id,
\* message_id) or two conversation records with the same conversation_id.
C2_NoDuplicateRecords ==
    \A n \in DbNames :
        /\ \A i, j \in 1..Len(db[n].messages) :
               /\ db[n].messages[i].conversation_id = db[n].messages[j].conversation_id
               /\ db[n].messages[i].message_id = db[n].messages[j].message_id
               => i = j
        /\ \A i, j \in 1..Len(db[n].conversations) :
               db[n].conversations[i].conversation_id = db[n].conversations[j].conversation_id
               => i = j

\* the conversation record of id c that the batch's latest-wins rule selects: the
\* first one among those of greatest update_time, an absent update_time counting as 0
LatestConversation(batch, c) ==
    LET same == {i \in 1..Len(batch) : batch[i].id = c}
        best == CHOOSE i \in same :
                    /\ \A j \in same : OrZero(batch[j].update_time) <= OrZero(batch[i].update_time)
                    /\ \A j \in same : j < i =>
                           OrZero(batch[j].update_time) < OrZero(batch[i].update_time)
    IN  batch[best]

\* C6: within one batch, the stored conversation of an id carries the title and
\* timestamps of the record with the greatest update_time (absent counting as 0),
\* the first such record on a tie.
C6_LatestConversationWins ==
    ConversationsWritten =>
        \A c \in {input.batch[i].id : i \in 1..Len(input.batch)} :
            LET w == LatestConversation(input.batch, c)
                stored == {r \in Rows(db[LegacyName].conversations) : r.conversation_id = c}
            IN  /\ stored # {}
                /\ \A r \in stored : /\ r.title = w.title
                                     /\ r.create_time = w.create_time
                                     /\ r.update_time = w.update_time

\* the nodes of the batch whose text, as it would be stored, is not blank
NonEmptyNodes(batch, limit) ==
    LET Test(t) == HasParts(t.node)
                   /\ TrimNonEmpty(NodeContent(t.node.message[1].parts[1], limit))
    IN  SelectSeq(NodesOf(batch), Test)

KeyOf(t) == <<t.conversation_id, t.node.id>>

\* the node of a key that the latest-wins rule selects: the first one among those of
\* greatest create_time, an absent create_time counting as 0
LatestNode(nodes, key) ==
    LET same == {i \in 1..Len(nodes) : KeyOf(nodes[i]) = key}
        Time(i) == OrZero(nodes[i].node.message[1].create_time)
        best == CHOOSE i \in same :
                    /\ \A j \in same : Time(j) <= Time(i)
                    /\ \A j \in same : j < i => Time(j) < Time(i)
    IN  nodes[best].node

\* C7: within one batch, the stored message of a (conversation id, node id) shared
\* by several non-empty nodes is the node with the greatest create_time (absent
\* counting as 0), the first-seen one on a tie; there is one stored message per key.
C7_LatestMessageWins ==
    Flattened =>
        LET nodes == NonEmptyNodes(input.batch, input.limit)
            keys == {KeyOf(nodes[i]) : i \in 1..Len(nodes)}
            table == db[LegacyName].messages
        IN  /\ \A r \in Rows(table) : <<r.conversation_id, r.message_id>> \in keys
            /\ \A key \in keys :
                 LET w == LatestNode(nodes, key)
                     stored == {i \in 1..Len(table) :
                                   <<table[i].conversation_id, table[i].message_id>> = key}
                 IN  /\ Cardinality(stored) = 1
                     /\ \A i \in stored :
                          /\ table[i].content = NodeContent(w.message[1].parts[1], input.limit)
                          /\ table[i].role = w.message[1].author[1]
                          /\ table[i].create_time = w.message[1].create_time
                          /\ table[i].parent_id = w.parent

\* C7 witness: a batch was stored in which a later node of a key replaced an
\* earlier one and, for some key, an equally recent later node did not
C7_Witness ==
    /\ Flattened
    /\ LET nodes == NonEmptyNodes(input.batch, input.limit)
           Time(i) == OrZero(nodes[i].node.message[1].create_time)
       IN  /\ \E i, j \in 1..Len(nodes) :
                /\ i < j /\ KeyOf(nodes[i]) = KeyOf(nodes[j]) /\ Time(j) > Time(i)
                /\ LatestNode(nodes, KeyOf(nodes[i])) = nodes[j].node
           /\ \E i, j \in 1..Len(nodes) :
                /\ i < j /\ KeyOf(nodes[i]) = KeyOf(nodes[j]) /\ Time(j) = Time(i)
                /\ nodes[i].node # nodes[j].node
                /\ LatestNode(nodes, KeyOf(nodes[i])) = nodes[i].node

\* C8: in every state of a partition, also between the two bulk writes of
\* storeConversations and between the two clears of clearAll, every stored message
\* has a conversation_id for which the partition holds a conversation record.
C8_MessagesReferenceConversation ==
    \A n \in DbNames :
        \A m \in Rows(db[n].messages) :
            \E c \in Rows(db[n].conversations) : c.conversation_id = m.conversation_id

\* the records a read of handle e may return
ReadsOnlyOwnPartition ==
    \A e \in Handles :
        LET own == db[PartitionOf(e)]
        IN  /\ GetConversationsResult(e).ok =>
                 Rows(GetConversationsResult(e).rows) \subseteq Rows(own.conversations)
            /\ \A c \in ConversationIds :
                 /\ GetConversationMessagesResult(c, e).ok =>
                      Rows(GetConversationMessagesResult(c, e).rows) \subseteq Rows(own.messages)
                 /\ \A q \in Queries :
                      SearchInConversationResult(c, q, e).ok =>
                          Rows(SearchInConversationResult(c, q, e).rows) \subseteq Rows(own.messages)

\* a step changes the records of no database but the partition of the acting call,
\* and getStats counts the tables of its own partition
WritesOnlyOwnPartition ==
    /\ \A n \in DbNames :
          db'[n] # db[n] => \E o \in OpIds : Acts(o) /\ n = PartitionOf(ops'[o].exportId)
    /\ \A o \in OpIds :
          /\ ops'[o].pc = "countMessages" /\ Acts(o) =>
                ops'[o].stats.conversations = Len(db[PartitionOf(ops'[o].exportId)].conversations)
          /\ ops'[o].kind = "stats" /\ ops'[o].pc = "done" /\ Acts(o) =>
                ops'[o].stats.messages = Len(db[PartitionOf(ops'[o].exportId)].messages)

\* C9: storeConversations, clearAll, deleteDatabase, getConversations,
\* getConversationMessages, searchInConversation and getStats called for a partition
\* leave the records of every other partition (the legacy one included) unchanged
\* and return only records of their own partition.
C9_PartitionsIsolated == []ReadsOnlyOwnPartition /\ [][WritesOnlyOwnPartition]_vars

\* C9 witness: the partition of an export and the legacy partition hold different
\* records, each written by a storeConversations call for its own handle
C9_Witness ==
    /\ \E e \in ExportIds :
          /\ db[PartitionOf(e)].conversations # <<>>
          /\ db[PartitionOf(e)].conversations # db[LegacyName].conversations
    /\ db[LegacyName].conversations # <<>>

\* C10 as stated: a body longer than MAX_CONTENT_LENGTH is stored as its first
\* MAX_CONTENT_LENGTH characters followed by the marker and the stored content never
\* exceeds MAX_CONTENT_LENGTH; a body at or under the limit is stored unchanged.
C10_StoredWithinLimit ==
    Flattened =>
        LET nodes == NonEmptyNodes(input.batch, input.limit)
            max == MaxContentLength(input.limit)
        IN  \A r \in Rows(db[LegacyName].messages) :
                LET body == Body(LatestNode(nodes, <<r.conversation_id, r.message_id>>))
                IN  /\ r.content = IF Len(body) > max
                                   THEN Substring0(body, max) \o TruncationMarker
                                   ELSE body
                    /\ Len(r.content) <= max

\* C10 amended: a body longer than MAX_CONTENT_LENGTH is stored as its first
\* MAX_CONTENT_LENGTH characters followed by the marker, so the stored content never
\* exceeds MAX_CONTENT_LENGTH plus the length of the marker; a body at or under the
\* limit is stored unchanged.
C10_StoredWithinLimitPlusMarker ==
    Flattened =>
        LET nodes == NonEmptyNodes(input.batch, input.limit)
            max == MaxContentLength(input.limit)
        IN  \A r \in Rows(db[LegacyName].messages) :
                LET body == Body(LatestNode(nodes, <<r.conversation_id, r.message_id>>))
                IN  /\ r.content = IF Len(body) > max
                                   THEN Substring0(body, max) \o TruncationMarker
                                   ELSE body
                    /\ Len(r.content) <= max + Len(TruncationMarker)

\* C10 witness: one stored message was cut to the limit and another, exactly as
\* long as the limit, was stored whole
C10_Witness ==
    /\ Flattened
    /\ LET nodes == NonEmptyNodes(input.batch, input.limit)
           max == MaxContentLength(input.limit)
           BodyOf(r) == Body(LatestNode(nodes, <<r.conversation_id, r.message_id>>))
       IN  /\ \E r \in Rows(db[LegacyName].messages) : Len(BodyOf(r)) > max
           /\ \E r \in Rows(db[LegacyName].messages) : Len(BodyOf(r)) = max

(***************************************************************************)
(* Claims about the import registry and the orchestrator                    *)
(***************************************************************************)
NoBatch == \A c \in CallIds : ~InBatch(c)

\* the registry entries that record file f
EntriesOf(f) ==
    {i \in 1..Len(registry) : registry[i].filename = f.name /\ registry[i].size = f.size}

\* C3: whenever no batch is in progress, every entry of the import registry belongs to
\* a file whose ingestion succeeded; a file whose extraction, validation or storage
\* failed has no registry entry.
C3_RegistryOnlySucceeded ==
    NoBatch =>
        \A f \in FilePool : EntriesOf(f) # {} => trail[f.name].outcome = "ok"

BatchHoldsFlag ==
    /\ Cardinality({c \in CallIds : InBatch(c)}) <= 1
    /\ (\E c \in CallIds : InBatch(c)) => isProcessingFiles

\* a call made while the flag is set ends at once and leaves the registry, the
\* partitions and the batch in progress as they were
TurnedAway ==
    \A c \in CallIds :
        calls[c].pc = "idle" /\ calls'[c].pc # "idle" /\ isProcessingFiles =>
            /\ calls'[c].pc \in {"rejected", "done"}
            /\ \A q \in CallIds \ {c} : calls'[q] = calls[q]
            /\ UNCHANGED <<db, dbCache, registry, activeExports, trail, isProcessingFiles>>

\* C5: at most one ingestion batch is in progress at any time; a processFiles call
\* from a drop, the file input or processFile made while isProcessingFiles is set
\* returns without touching the registry or any partition.
C5_OneBatchAtATime == []BatchHoldsFlag /\ [][TurnedAway]_vars

\* C5 witness: a batch is between its two bulk writes and a call made meanwhile has
\* been turned away
C5_Witness ==
    /\ calls[1].pc = "putMessages"
    /\ calls[2].pc = "rejected"
    /\ isProcessingFiles

\* the name of the database of the partition of file f
PartitionOfFile(f) == RegistryDbName(generateExportId(f))

\* every file of the batch has been through the loop once the loop is over, whatever
\* failed on the way
WholeBatchProcessed ==
    \A c \in CallIds :
        /\ InBatch(c) =>
              calls[c].processedCount + calls[c].skippedCount + Len(calls[c].errors)
                  = calls[c].i - 1
        /\ calls[c].pc \in {"stats", "reload"} => calls[c].i = calls[c].total + 1
        /\ calls[c].pc = "done" /\ calls[c].result \in {"ok", "error"} =>
              calls[c].processedCount + calls[c].skippedCount + Len(calls[c].errors)
                  = calls[c].total

\* a file that has been ingested keeps its registry entry and its records
SucceededFilesStay ==
    \A f \in FilePool :
        trail[f.name].outcome = "ok" =>
            /\ trail'[f.name].outcome = "ok"
            /\ \E i \in 1..Len(registry') :
                  registry'[i].filename = f.name /\ registry'[i].size = f.size
            /\ Rows(db[PartitionOfFile(f)].conversations)
                  \subseteq Rows(db'[PartitionOfFile(f)].conversations)
            /\ Rows(db[PartitionOfFile(f)].messages)
                  \subseteq Rows(db'[PartitionOfFile(f)].messages)

\* C11: a failure while processing one file of a batch (size ceiling, extraction,
\* validation, registration or storage) does not abort the batch: every later file is
\* still processed, and the files that succeeded stay registered and stored.
C11_FailureDoesNotAbortBatch == []WholeBatchProcessed /\ [][SucceededFilesStay]_vars

\* C11 witness: the first file of a batch has failed and the second is being stored
C11_Witness ==
    /\ calls[1].pc = "putMessages"
    /\ calls[1].i = 2
    /\ Len(calls[1].errors) = 1

\* C12: every file of a batch that fails is named, with its cause, in the message the
\* batch ends with, for every mix of outcomes, the batch in which every file fails
\* included.
C12_FailuresReported ==
    \A c \in CallIds :
        calls[c].pc = "done" /\ calls[c].result \in {"ok", "error"} =>
            calls[c].reported = calls[c].errors

\* the entries of the archive handed to extractConversationsJson
Entries == zip.file.entries

\* the path has the base name conversations.json, at any depth
BaseNamed(path) ==
    path = ConversationsJson \/ EndsWith(path, <<"/">> \o ConversationsJson)

NamedEntries == {i \in 1..Len(Entries) : BaseNamed(Entries[i].path)}

\* the entries named conversations.json whose path passes the strict validation
SafeTargets ==
    {i \in NamedEntries : isSafePath(Entries[i].path, TRUE) /\ ~Entries[i].dir}

LastOf(indices) == CHOOSE i \in indices : \A j \in indices : j <= i

\* the entries that pass path validation and are not directories
Counted ==
    {i \in 1..Len(Entries) :
        isSafePath(Entries[i].path, IsTargetFile(Entries[i].path)) /\ ~Entries[i].dir}

RECURSIVE DeclaredSum(_)
\* the sum of the uncompressed sizes the headers of the entries declare
DeclaredSum(indices) ==
    IF indices = {} THEN 0
    ELSE LET i == CHOOSE j \in indices : TRUE
         IN  OrZero(Entries[i].uncompressedSize) + DeclaredSum(indices \ {i})

\* the call has ended otherwise than by a failure to read the archive
Ended == zip.pc = "done" /\ zip.result # "unreadable"

\* every entry of the archive, and the archive itself, is within the limits
WholeWithinLimits ==
    /\ zip.file.size <= MAX_ZIP_SIZE
    /\ DeclaredSum(1..Len(Entries)) <= MAX_EXTRACTED_SIZE
    /\ \A i \in 1..Len(Entries) :
          /\ OrZero(Entries[i].uncompressedSize) <= MAX_JSON_TEXT_SIZE
          /\ Entries[i].text.length <= MAX_JSON_TEXT_SIZE

\* the archive, the entries that pass path validation and the text of the entry that
\* is decompressed are within the limits
CountedWithinLimits ==
    /\ zip.file.size <= MAX_ZIP_SIZE
    /\ DeclaredSum(Counted) <= MAX_EXTRACTED_SIZE
    /\ \A i \in Counted : OrZero(Entries[i].uncompressedSize) <= MAX_JSON_TEXT_SIZE
    /\ SafeTargets # {} => Entries[LastOf(SafeTargets)].text.length <= MAX_JSON_TEXT_SIZE

\* C13 as stated: for every archive within the size limits that contains an entry with
\* the base name conversations.json holding a JSON array, extractConversationsJson
\* returns that parsed array; for every archive with no entry of that base name it fails
\* with the payload-not-found error.
C13_PayloadFound ==
    Ended /\ WholeWithinLimits =>
        /\ (\E i \in NamedEntries : Entries[i].text.kind = "array") =>
              /\ zip.result = "ok"
              /\ \E i \in NamedEntries :
                    /\ Entries[i].text.kind = "array"
                    /\ zip.value = Entries[i].text.conversations
        /\ NamedEntries = {} => zip.result = "notFound"

\* C13 amended: for every archive within the size limits whose last entry that is named
\* conversations.json and passes the strict path validation holds a JSON array,
\* extractConversationsJson returns that parsed array; for every archive with no entry of
\* that base name it fails with the payload-not-found error.
C13_SafePayloadFound ==
    Ended /\ CountedWithinLimits =>
        /\ SafeTargets # {} /\ Entries[LastOf(SafeTargets)].text.kind = "array" =>
              /\ zip.result = "ok"
              /\ zip.value = Entries[LastOf(SafeTargets)].text.conversations
        /\ NamedEntries = {} => zip.result = "notFound"

\* C13 witness: an archive with two safe entries named conversations.json and an unsafe
\* one has yielded the array of the last safe one
C13_Witness ==
    /\ zip.result = "ok"
    /\ Cardinality(SafeTargets) = 2
    /\ NamedEntries # SafeTargets
    /\ zip.value = Entries[LastOf(SafeTargets)].text.conversations
    /\ zip.value # Entries[CHOOSE i \in SafeTargets : i # LastOf(SafeTargets)].text.conversations

\* C14: an archive entry whose path contains ../ is treated as unsafe and is never
\* decompressed, whatever its base name (conversations.json included).
C14_TraversalNeverDecompressed ==
    \A i \in 1..Len(Entries) :
        Includes(Entries[i].path, <<".", ".", "/">>) =>
            /\ zip.pass.jsonFile # Some(i)
            /\ \A k \in 1..Len(zip.decompressed) : zip.decompressed[k] # i

\* C14 witness: an archive that holds ../conversations.json after a safe
\* conversations.json has been extracted from the safe one
C14_Witness ==
    /\ zip.result = "ok"
    /\ \E i \in NamedEntries :
          /\ Includes(Entries[i].path, <<".", ".", "/">>)
          /\ i > zip.decompressed[1]

SizeLimitErrors == {"zipTooLarge", "zipExceeds", "tooMuchData", "entryTooLarge"}

\* C15 as stated: if the declared uncompressed sizes of the entries, summed over the whole
\* archive, exceed maxExtractedSize, extractConversationsJson fails with a size-limit
\* error and no entry is decompressed.
C15_WholeArchiveSum ==
    DeclaredSum(1..Len(Entries)) > MAX_EXTRACTED_SIZE =>
        /\ zip.decompressed = <<>>
        /\ Ended => zip.result \in SizeLimitErrors

\* C15 amended: if the declared uncompressed sizes, summed over the entries that pass
\* path validation and are not directories, exceed maxExtractedSize,
\* extractConversationsJson fails with a size-limit error and no entry is decompressed.
C15_CountedSum ==
    DeclaredSum(Counted) > MAX_EXTRACTED_SIZE =>
        /\ zip.decompressed = <<>>
        /\ Ended => zip.result \in SizeLimitErrors

\* C15 witness: the total passed the limit at the third entry, after a
\* conversations.json had been found, and nothing was decompressed
C15_Witness ==
    /\ zip.result = "tooMuchData"
    /\ zip.pass.scanned = 3
    /\ zip.pass.jsonFile # None
    /\ zip.decompressed = <<>>

\* C16: in every run of extractConversationsJson at most one entry is decompressed, that
\* entry is one named conversations.json, and it is decompressed only after every entry
\* of the archive has gone through path and size validation without raising an error.
C16_OneEntryAfterValidation ==
    /\ Len(zip.decompressed) <= 1
    /\ \A k \in 1..Len(zip.decompressed) :
          /\ zip.decompressed[k] \in NamedEntries
          /\ zip.pass.scanned = Len(Entries)
          /\ zip.pass.error = "none"

\* C16 witness: the first of three entries is being decompressed, after the other two
\* have been validated
C16_Witness ==
    /\ zip.pc = "async"
    /\ Len(Entries) = 3
    /\ zip.decompressed = <<1>>
    /\ zip.pass.scanned = 3

\* C17: when the required conversations.json entry of an archive has a path that fails
\* validation, extraction surfaces an unsafe-path error for that entry, distinguishable
\* from the payload-not-found error raised when the archive has no such entry.
C17_UnsafeTargetSurfaced ==
    zip.pc = "done" /\ zip.pass.warned # {} /\ zip.pass.jsonFile = None =>
        zip.result # "notFound"

\* the query is empty or holds whitespace only
WhitespaceOnly(query) == \A i \in 1..Len(query) : query[i] \in Whitespace

\* C18: globalSearch, searchAllConversations and searchInConversation called with an
\* empty or whitespace-only query return an empty list and perform no read of any
\* partition: no table is read and no database is opened for the call.
C18_BlankQueryReadsNothing ==
    search.pc # "idle" /\ WhitespaceOnly(search.query) =>
        /\ search.pc = "done"
        /\ ~search.rejected
        /\ search.result = <<>>
        /\ search.reads = <<>>
        /\ dbCache[GetDbName(EmptyExport)] = "none"

\* C18 witness: globalSearch of a whitespace-only query over two exports, one of them
\* holding conversations, has returned
C18_Witness ==
    /\ search.pc = "done"
    /\ search.op = "globalSearch"
    /\ search.query = <<" ">>
    /\ search.exportIds = <<EmptyExport, SearchExport>>
    /\ db[GetDbName(SearchExport)].conversations # <<>>

\* result a may stand before result b
Precedes(a, b) ==
    \/ a.titleMatch /\ ~b.titleMatch
    \/ /\ a.titleMatch = b.titleMatch
       /\ Len(a.messageMatches) > Len(b.messageMatches)
    \/ /\ a.titleMatch = b.titleMatch
       /\ Len(a.messageMatches) = Len(b.messageMatches)
       /\ ~JsGreater(b.conversation.create_time, a.conversation.create_time)

\* C19: globalSearch returns its results ordered: every title match before every result
\* without title match; among results of equal title-match status, more message matches
\* first; among those, the greater conversation create_time first.
C19_ResultsRanked ==
    search.pc = "done" /\ search.op = "globalSearch" =>
        \A i, j \in 1..Len(search.result) :
            i < j => Precedes(search.result[i], search.result[j])

\* C19 witness: A (title match, 1 message match), B (no title match, 3 message matches)
\* and C (title match, no message match) have come out as A, C, B
C19_Witness ==
    /\ search.pc = "done"
    /\ search.op = "globalSearch"
    /\ Len(search.result) = 3
    /\ search.result[1].titleMatch /\ Len(search.result[1].messageMatches) = 1
    /\ search.result[2].titleMatch /\ Len(search.result[2].messageMatches) = 0
    /\ ~search.result[3].titleMatch /\ Len(search.result[3].messageMatches) = 3
    /\ search.result[3].conversation.create_time[1] < search.result[2].conversation.create_time[1]

\* the partition a globalSearch over one export reads
SearchedPartition == db[GetDbName(SearchExports(search.exportIds)[1])]

\* the title of a stored conversation with this id, or one of its stored messages,
\* contains the query, compared case-insensitively
ContainsQuery(text) == Includes(ToLowerCase(text), ToLowerCase(search.query))

MatchingMessages(id) ==
    {m \in Rows(SearchedPartition.messages) :
        m.conversation_id = id /\ ContainsQuery(m.content)}

Hit(id) ==
    \/ \E r \in Rows(SearchedPartition.conversations) :
          r.conversation_id = id /\ r.title # NullTitle /\ ContainsQuery(r.title)
    \/ MatchingMessages(id) # {}

Appearances(id) ==
    {i \in 1..Len(search.result) : search.result[i].conversation.conversation_id = id}

\* C20: for a non-empty query and a partition, a conversation appears in the globalSearch
\* result if and only if its title or at least one of its stored messages contains the
\* query (case-insensitive substring); each such conversation appears exactly once, with
\* one message match per matching message.
C20_ExactlyTheMatches ==
    /\ search.pc = "done"
    /\ search.op = "globalSearch"
    /\ ~WhitespaceOnly(search.query)
    /\ Len(SearchExports(search.exportIds)) = 1
    => \A r \in Rows(SearchedPartition.conversations) :
          LET id == r.conversation_id
          IN  /\ Hit(id) <=> Appearances(id) # {}
              /\ Hit(id) =>
                    /\ Cardinality(Appearances(id)) = 1
                    /\ \A i \in Appearances(id) :
                          Len(search.result[i].messageMatches)
                              = Cardinality(MatchingMessages(id))

\* the exports a globalSearch call was asked to search: the listed ones, or the legacy
\* partition for an empty list
Listed == IF search.exportIds = <<>> THEN <<None>> ELSE search.exportIds

\* what searching the partition of one export alone finds for the query of the call: one
\* result per stored conversation whose title or messages contain the query
AloneResults(exportId) ==
    LET database == db[GetDbName(exportId)]
        Result(conv) ==
            [conversation |-> [exportId |-> exportId] @@ conv,
             titleMatch |-> ContainsQuery(conv.title),
             messageMatches |->
                MessageMatches(SearchInConversationOf(database, conv.conversation_id,
                                                      search.query), search.query)]
    IN  {Result(database.conversations[k]) : k \in 1..Len(database.conversations)}

\* the conversations of the partition all have a title, so that searching it alone returns
Searchable(exportId) ==
    \A r \in Rows(db[GetDbName(exportId)].conversations) : r.title # NullTitle

\* the number of places at which x stands in seq
Count(seq, x) == Cardinality({i \in 1..Len(seq) : seq[i] = x})

\* the matching results of one partition alone
AloneMatches(exportId) ==
    {x \in AloneResults(exportId) : x.titleMatch \/ Len(x.messageMatches) > 0}

\* C21: globalSearch over a list of partitions returns exactly the union of the results of
\* searching each listed partition alone, re-sorted by the same ranking order, each result
\* tagged with the partition it came from; no partition is favoured by its position.
C21_UnionOfPartitions ==
    /\ search.pc = "done"
    /\ search.op = "globalSearch"
    /\ ~WhitespaceOnly(search.query)
    /\ \A k \in 1..Len(Listed) : Searchable(Listed[k])
    => /\ ~search.rejected
       /\ \A i \in 1..Len(search.result) :
             \E k \in 1..Len(Listed) : search.result[i] \in AloneMatches(Listed[k])
       /\ \A k \in 1..Len(Listed) :
             \A x \in AloneMatches(Listed[k]) :
                Count(search.result, x) =
                    Cardinality({j \in 1..Len(db[GetDbName(Listed[k])].conversations) :
                        ([exportId |-> Listed[k]]
                            @@ db[GetDbName(Listed[k])].conversations[j]) = x.conversation})
       /\ \A i, j \in 1..Len(search.result) :
             i < j => Precedes(search.result[i], search.result[j])

\* C21 witness: a search over two exports has returned results of both, and the first
\* result comes from the export listed second
C21_Witness ==
    /\ search.pc = "done"
    /\ search.op = "globalSearch"
    /\ Len(search.exportIds) = 2
    /\ Len(search.result) >= 3
    /\ search.result[1].conversation.exportId = search.exportIds[2]
    /\ \E i \in 1..Len(search.result) :
          search.result[i].conversation.exportId = search.exportIds[1]

\* no batch is in progress and the flag is clear
FlagReleased == (\A c \in CallIds : ~InBatch(c)) => ~isProcessingFiles

\* a call is turned away only while a batch is in progress
AcceptedWhenIdle ==
    \A c \in CallIds :
        calls[c].pc = "idle" /\ calls'[c].pc = "rejected" => \E q \in CallIds : InBatch(q)

\* C26: the in-progress flag is released on every exit path of a batch (success, no
\* valid file, every file failing, count ceiling exceeded, storage or reload error):
\* once no batch is in progress isProcessingFiles is false, and a call made then is
\* not turned away.
C26_FlagReleasedOnEveryExit == []FlagReleased /\ [][AcceptedWhenIdle]_vars

\* C26 witness: a batch has ended in the outer catch and the next call has been
\* accepted and is extracting its first file
C26_Witness ==
    /\ calls[1].pc = "done"
    /\ calls[1].result = "error"
    /\ calls[2].pc = "extract"

\* the running total of the batch of call c once its current file is counted
RunningTotal(c) == calls[c].allCount + Len(CurrentFile(calls[c]).payload.conversations)

\* C27: the cumulative conversation-count ceiling is enforced before the hand-off to
\* storage: a file whose conversations push the running total of its batch over
\* MAX_CONVERSATIONS is neither registered nor stored, so no call is ever between
\* the two bulk writes of such a file.
C27_CeilingBeforeHandOff ==
    \A c \in CallIds : calls[c].pc = "putMessages" => RunningTotal(c) <= MAX_CONVERSATIONS

\* nothing of file f has been read, registered or stored by processFiles
Untouched(f) ==
    /\ trail[f.name].extracted = 0
    /\ trail[f.name].stored = 0
    /\ ~trail[f.name].known
    /\ \A i \in 1..Len(registry) : registry[i].filename # f.name
    /\ db[PartitionOfFile(f)] = EmptyDatabase

\* the archive handed to extractConversationsJson has not been read: no arrayBuffer,
\* no entry visited, none decompressed
ArchiveUnread ==
    /\ zip.pc \in {"called", "done"}
    /\ zip.pc = "done" => zip.result = "zipTooLarge"
    /\ zip.pass = NoPass
    /\ zip.decompressed = <<>>
    /\ zip.value = <<>>

\* C30: a file above its size ceiling (MAX_FILE_SIZE in processFiles, MAX_ZIP_SIZE in
\* extractConversationsJson) is rejected before its bytes are read or an entry is
\* opened, and nothing is registered or stored for it.
C30_OversizeRejectedUnread ==
    /\ \A f \in FilePool : f.size > MAX_FILE_SIZE => Untouched(f)
    /\ zip.file.size > MAX_ZIP_SIZE =>
          ArchiveUnread /\ registry = <<>> /\ \A n \in DbNames : db[n] = EmptyDatabase

\* C30 witness for processFiles: the oversize file has failed and the file after it is
\* being stored
C30_Witness ==
    /\ calls[1].pc = "putMessages"
    /\ calls[1].files[1] = F7
    /\ calls[1].errors = <<F7.name>>
    /\ trail[F7.name].seen = 1

\* C30 witness for extractConversationsJson: an archive above the ceiling that holds
\* conversations.json has been rejected
C30_WitnessArchive ==
    /\ zip.pc = "done"
    /\ zip.result = "zipTooLarge"
    /\ zip.file.size > MAX_ZIP_SIZE
    /\ zip.file.entries = <<E1>>

\* entry e is not conversations.json and its path fails the validation applied to it
RefusedNonTarget(e) == ~IsTargetFile(e.path) /\ ~isSafePath(e.path, FALSE)

\* the archive without its refused non-target entries
Accepted(e) == ~RefusedNonTarget(e)
WithoutRefused(entries) == SelectSeq(entries, Accepted)

\* the entry a first pass has chosen, if any
Chosen(pass, entries) == IF pass.jsonFile = None THEN None ELSE Some(entries[pass.jsonFile[1]])

\* conversations.json at a safe path, within the limits, holding an array
ValidTarget(e) ==
    /\ IsTargetFile(e.path) /\ isSafePath(e.path, TRUE) /\ ~e.dir
    /\ e.uncompressedSize # None /\ e.uncompressedSize[1] <= MAX_JSON_TEXT_SIZE
    /\ e.text.length <= MAX_JSON_TEXT_SIZE /\ e.text.kind = "array"

\* C29: a non-target archive entry whose name fails path validation (unusual
\* characters, traversal segments) never aborts the import: the first pass ends as it
\* does on the archive without such entries (same error or none, same payload chosen,
\* same size counted), and an archive made of valid conversations.json entries and
\* refused non-target entries is extracted unless the file cannot be read.
C29_RefusedEntrySkipped ==
    LET entries == zip.file.entries
        clean == WithoutRefused(entries)
        alone == FirstPass(clean, 1, NoPass)
    IN  /\ zip.pass # NoPass =>
              /\ zip.pass.error = alone.error
              /\ zip.pass.total = alone.total
              /\ Chosen(zip.pass, entries) = Chosen(alone, clean)
        /\ (/\ zip.pc = "done"
            /\ clean # <<>>
            /\ \A i \in 1..Len(clean) : ValidTarget(clean[i])
            /\ DeclaredSum({i \in 1..Len(entries) : Accepted(entries[i])}) <= MAX_EXTRACTED_SIZE) =>
              zip.result \in {"ok", "unreadable", "zipTooLarge"}

\* C29 witness: an archive with a media file whose name holds '#', an entry under '..'
\* and conversations.json has been extracted
C29_Witness ==
    /\ zip.pc = "done"
    /\ zip.result = "ok"
    /\ zip.file.entries = <<E7, E13, E1>>
    /\ zip.value = <<K1>>

\* no batch is in progress
Quiet == \A c \in CallIds : ~InBatch(c)

\* the batches that went through the loop and have ended
EndedBatches == {c \in CallIds : calls[c].pc = "done" /\ calls[c].result \in {"ok", "error"}}

\* the batch that ended last
LastBatch == CHOOSE c \in EndedBatches : \A q \in EndedBatches : q <= c

\* C28: after every batch that changed storage or the registry (it registered and
\* stored at least one file), the in-memory conversation list equals the conversations
\* re-read from all active partitions, sorted by update_time descending.
C28_ListRereadAfterBatch ==
    (Quiet /\ EndedBatches # {} /\ calls[LastBatch].processedCount > 0) =>
        thisConversations = getAllConversationsFromExports(activeExports)

\* the conversations shown that come from the export
ShownFrom(exportId) ==
    LET From(conv) == conv.exportId = exportId
    IN  SelectSeq(thisConversations, From)

\* the stored conversations of the export as a read of its partition lists them, with
\* the tags of the export
ReadOf(exportId) ==
    LET read == ConversationsOf(db[GetDbName(exportId)])
    IN  [k \in 1..Len(read) |-> Tagged(read[k], exportId)]

\* C22: resuming a session with a registry entry whose partition fails to open does
\* not fail resumption: no error is shown, the conversations of every other registered
\* partition are loaded (and shown when there are any), most recently updated first,
\* and the failing import contributes none.
C22_ResumeSurvivesFailingPartition ==
    (session.pc = "done" /\ session.op = "resumeExports" /\ registry # <<>>) =>
        /\ session.outcome = "resumed"
        /\ session.message = "none"
        /\ \A k \in 1..Len(registry) :
              ShownFrom(registry[k].id) =
                  IF GetDbName(registry[k].id) \in session.unopenable THEN <<>>
                  ELSE ReadOf(registry[k].id)
        /\ \A i \in 1..Len(thisConversations) :
              \E k \in 1..Len(registry) : thisConversations[i].exportId = registry[k].id
        /\ \A i, j \in 1..Len(thisConversations) :
              i < j => thisConversations[i].update_time[1] >= thisConversations[j].update_time[1]
        /\ session.rendered = (thisConversations # <<>>)

\* C22 witness: of three registered partitions the second cannot be opened although it
\* holds conversations, and the conversations of the third are shown
C22_Witness ==
    /\ session.pc = "done"
    /\ session.op = "resumeExports"
    /\ Len(registry) = 3
    /\ GetDbName(registry[2].id) \in session.unopenable
    /\ ConversationsOf(db[GetDbName(registry[2].id)]) # <<>>
    /\ ShownFrom(registry[3].id) # <<>>
    /\ session.rendered

\* at most one record per identity
OnePerIdentity == \A i, j \in 1..Len(registry) : registry[i].id = registry[j].id => i = j

\* a step of addExportToRegistry: with an identity already in the registry it returns
\* the record that is there and leaves the registry as it was; otherwise, unless the
\* save throws, it appends one record for the file, with the dbName of the identity
AddIsIdempotent ==
    (session'.op = "addExportToRegistry" /\ session' # session) =>
        LET exportId == session'.exportId[1]
            at == {i \in 1..Len(registry) : registry[i].id = exportId}
            record == registry'[Len(registry')]
        IN  IF at # {}
            THEN /\ registry' = registry
                 /\ ~session'.threw
                 /\ \E i \in at : session'.returned = Some(registry[i])
            ELSE IF session'.threw
            THEN registry' = registry /\ session'.returned = None
            ELSE /\ registry' = Append(registry, record)
                 /\ record.id = exportId
                 /\ record.filename = session'.file[1].name
                 /\ record.size = session'.file[1].size
                 /\ record.dbName = S("ChatGPTDatabase_") \o exportId
                 /\ session'.returned = Some(record)

\* C23: addExportToRegistry is idempotent: called with an identity already in the
\* registry it returns the existing record and leaves the registry unchanged; otherwise
\* it appends one record whose dbName is derived from the identity.  After any sequence
\* of add, remove and clear calls the registry holds at most one record per identity.
C23_RegistrationIdempotent == []OnePerIdentity /\ [][AddIsIdempotent]_vars

\* C23 witness: with two identities registered, addExportToRegistry has been called
\* with the first of them and has returned its record
C23_Witness ==
    /\ session.op = "addExportToRegistry"
    /\ Len(registry) = 2
    /\ session.returned = Some(registry[1])
    /\ session.file[1].name # registry[1].filename

SameTriple(f, g) == f.name = g.name /\ f.size = g.size /\ f.lastModified = g.lastModified

Base36 == {Digits36[i] : i \in 1..36}

TimedOutShown ==
    session.outcome = "timeout" =>
        /\ session.pc = "done"
        /\ session.message = "timeout"
        /\ session.content = "cleared"
        /\ ~session.loading
        /\ session.timer = QUERY_TIMEOUT

\* the step in which the timeout ends the call writes nothing to storage
TimeoutLeavesStorage ==
    (session.outcome # "timeout" /\ session'.outcome = "timeout") => UNCHANGED <<db, dbCache>>

\* C25: a single-conversation message fetch that has not completed after 30 s makes
\* selectConversation end with an error shown to the user, the main content cleared and
\* the loading indicator removed, instead of waiting forever; no stored record is
\* modified by the timeout.
C25_FetchTimesOut ==
    /\ []TimedOutShown
    /\ [][TimeoutLeavesStorage]_vars
    /\ (session.pc = "race") ~> (session.pc = "done" /\ ~session.loading)

\* C25 witness: the call has ended by the timeout while the fetch is still pending
C25_Witness ==
    /\ session.op = "selectConversation"
    /\ session.outcome = "timeout"
    /\ session.fetch = "pending"
    /\ session.conversation[1].exportId = SearchExport

\* the stored messages a message match of a result of the search may come from
SourcesOf(r, mm) ==
    {m \in Rows(db[GetDbName(r.conversation.exportId)].messages) :
        /\ m.conversation_id = r.conversation.conversation_id
        /\ m.message_id = mm.message_id
        /\ m.create_time = mm.create_time}

\* the positions (from 0) at which the query occurs in the text, case-insensitively
Occurrences(text) ==
    {i \in 0..(Len(text) - Len(search.query)) :
        ToLowerCase(SubSeq(text, i + 1, i + Len(search.query))) = ToLowerCase(search.query)}

Ellipsis == <<".", ".", ".">>

\* mm is the match of message m: the window of 60 characters to each side of the first
\* occurrence, with an ellipsis exactly at the ends where characters were cut
WindowOf(m, mm) ==
    LET len == Len(m.content)
        i == CHOOSE k \in Occurrences(m.content) : \A j \in Occurrences(m.content) : k <= j
        from == IF i - 60 > 0 THEN i - 60 ELSE 0
        to == IF i + Len(search.query) + 60 < len THEN i + Len(search.query) + 60 ELSE len
        cut == SubSeq(m.content, from + 1, to)
    IN  /\ Occurrences(m.content) # {}
        /\ mm.matchIndex = i
        /\ mm.context = (IF from > 0 THEN Ellipsis ELSE <<>>) \o cut
                            \o (IF to < len THEN Ellipsis ELSE <<>>)
        /\ Len(mm.context) = (to - from) + (IF from > 0 THEN 3 ELSE 0) + (IF to < len THEN 3 ELSE 0)

\* C31: for each matching message, the context returned by globalSearch is the
\* substring from max(0, i - 60) to min(len, i + |query| + 60) around the first
\* case-insensitive occurrence i of the query, prefixed with an ellipsis exactly when
\* characters were cut at the start and suffixed with one exactly when characters were
\* cut at the end.
C31_ContextWindow ==
    (search.pc = "done" /\ search.op = "globalSearch" /\ ~search.rejected) =>
        \A k \in 1..Len(search.result) :
            \A n \in 1..Len(search.result[k].messageMatches) :
                LET r == search.result[k]
                    mm == r.messageMatches[n]
                IN  /\ SourcesOf(r, mm) # {}
                    /\ \E m \in SourcesOf(r, mm) : WindowOf(m, mm)

\* C31 witness: one conversation has given four matches: one whose window reaches both
\* ends of a message of 121 characters, one cut at both ends, one cut at the end only
\* and one cut at the start only
C31_Witness ==
    /\ search.pc = "done"
    /\ search.op = "globalSearch"
    /\ \E k \in 1..Len(search.result) :
          LET ms == search.result[k].messageMatches
          IN  /\ Len(ms) = 4
              /\ Len(ms[1].context) = 121 /\ ms[1].matchIndex = 60
              /\ Len(ms[2].context) = 127 /\ ms[2].matchIndex = 61
              /\ Len(ms[3].context) = 64 /\ ms[3].matchIndex = 0
              /\ Len(ms[4].context) = 64 /\ ms[4].matchIndex = 61

\* the rows come one after the other from the greatest update_time to the least
ByUpdateTimeDescending(rows) ==
    \A i, j \in 1..Len(rows) :
        i < j => OrZero(rows[i].update_time) >= OrZero(rows[j].update_time)

\* the rows come from the least create_time to the greatest, an absent one counting as
\* 0, and rows of equal create_time in the order they were inserted
ByCreateTimeAscending(rows) ==
    \A i, j \in 1..Len(rows) :
        i < j => \/ OrZero(rows[i].create_time) < OrZero(rows[j].create_time)
                 \/ /\ OrZero(rows[i].create_time) = OrZero(rows[j].create_time)
                    /\ rows[i].id < rows[j].id

\* C32: getConversations(P) returns all conversations stored in P ordered by
\* update_time descending, and getConversationMessages(P, c) returns all messages of c
\* ordered by create_time ascending with ties in insertion order.
C32_ReadsReturnAllInOrder ==
    \A e \in Handles :
        LET database == db[GetDbName(e)]
            list == GetConversationsResult(e)
        IN  /\ list.ok =>
                /\ Rows(list.rows) = Rows(database.conversations)
                /\ Len(list.rows) = Len(database.conversations)
                /\ ByUpdateTimeDescending(list.rows)
            /\ \A c \in ConversationIds :
                  LET messages == GetConversationMessagesResult(c, e)
                      stored == {m \in Rows(database.messages) : m.conversation_id = c}
                  IN  messages.ok =>
                        /\ Rows(messages.rows) = stored
                        /\ Len(messages.rows) = Cardinality(stored)
                        /\ ByCreateTimeAscending(messages.rows)

\* the half of C32 about messages alone
MessagesReturnedInOrder ==
    \A e \in Handles, c \in ConversationIds :
        LET messages == GetConversationMessagesResult(c, e)
            stored == {m \in Rows(db[GetDbName(e)].messages) : m.conversation_id = c}
        IN  messages.ok =>
              /\ Rows(messages.rows) = stored
              /\ Len(messages.rows) = Cardinality(stored)
              /\ ByCreateTimeAscending(messages.rows)

(***************************************************************************)
(* Claims about flattening a batch                                          *)
(***************************************************************************)

\* the forEach of storeConversations threw before the database was asked for
Raised(batch, limit) == ~DedupBatch(batch, limit).ok

\* C33: flattening never raises on an absent field: whatever of message, author,
\* content, parts or mapping the nodes of a batch lack, the call of storeConversations
\* gets past the flattening to the two bulk writes.
C33_FlatteningNeverRaises ==
    ops[1].kind = "store" => ~Raised(ops[1].batch, ops[1].limit)

\* the occurrence of conversation id c in the batch whose record is stored
RecordWinner(batch, c) ==
    CHOOSE i \in 1..Len(batch) : batch[i] = LatestConversation(batch, c)

\* the ids of the nodes of one conversation that carry non-blank text
NonEmptyIds(conv, limit) ==
    LET nodes == NonEmptyNodes(<<conv>>, limit)
    IN  {nodes[i].node.id : i \in 1..Len(nodes)}

\* C37: when a conversation id occurs several times in a batch, the messages stored
\* for it are one per node id over the non-blank nodes of all its occurrences, each
\* chosen by the latest-wins rule, and the counts storeConversations returns are the
\* numbers of distinct conversation ids and of distinct (conversation, node) keys.
C37_UnionOverOccurrences ==
    Flattened =>
        LET nodes == NonEmptyNodes(input.batch, input.limit)
            keys == {KeyOf(nodes[i]) : i \in 1..Len(nodes)}
            ids == {input.batch[i].id : i \in 1..Len(input.batch)}
            table == db[LegacyName].messages
            result == StoreResult(input.batch, input.limit)
        IN  /\ \A c \in ids :
                 /\ {r.message_id : r \in {q \in Rows(table) : q.conversation_id = c}}
                      = UNION {NonEmptyIds(input.batch[i], input.limit) :
                                  i \in {j \in 1..Len(input.batch) : input.batch[j].id = c}}
                 /\ \A r \in {q \in Rows(table) : q.conversation_id = c} :
                      r.content = NodeContent(
                          LatestNode(nodes, <<c, r.message_id>>).message[1].parts[1],
                          input.limit)
            /\ result.conversations = Cardinality(ids)
            /\ result.messages = Cardinality(keys)
            /\ result.conversations = Len(db[LegacyName].conversations)
            /\ result.messages = Len(table)

\* C37 witness: a batch with one id twice was stored, and a stored message of that id
\* has a node id for which the occurrence that gave the conversation record carries
\* no non-blank node
C37_Witness ==
    /\ Flattened
    /\ Len(input.batch) = 2
    /\ input.batch[1].id = input.batch[2].id
    /\ \E r \in Rows(db[LegacyName].messages) :
         r.message_id \notin
             NonEmptyIds(input.batch[RecordWinner(input.batch, input.batch[1].id)],
                         input.limit)

(***************************************************************************)
(* Claims about removing exports and clearing the data                      *)
(***************************************************************************)

\* slot s takes a step of the operation op
StepOf(s, op) ==
    /\ session.manage[s].pc # session'.manage[s].pc
    /\ session'.manage[s].op = op

\* the ids of a list
IdsOf(exports) == {exports[k] : k \in 1..Len(exports)}

\* the registry entries of the exports other than exportId
OtherEntries(reg, exportId) ==
    LET Other(e) == e.id # exportId
    IN  SelectSeq(reg, Other)

\* a step of removeExport(id): the registry entry goes only once the deletion of the
\* partition has been awaited, a rejected deletion leaves the registry and
\* activeExports as they were, the step that follows a deletion and saves the
\* registry leaves id in neither, the reload that follows changes neither, and no
\* step touches the entry, the activation or the partition of another export
RemoveStepInOrder(s) ==
    LET before == session.manage[s]
        after == session'.manage[s]
        id == after.exportId
    IN  /\ (before.pc = "idle" /\ after.message = "error")
              => UNCHANGED <<registry, activeExports>>
        /\ (before.pc = "idle" /\ after.pc = "deleting")
              => /\ db'[RegistryDbName(id)] = EmptyDatabase
                 /\ UNCHANGED <<registry, activeExports>>
        /\ (Registered(registry, id) /\ ~Registered(registry', id))
              => before.pc = "deleting"
        /\ (before.pc = "deleting" /\ after.message # "error")
              => /\ ~Registered(registry', id)
                 /\ id \notin IdsOf(activeExports')
        /\ before.pc = "reload" => UNCHANGED <<registry, activeExports>>
        /\ OtherEntries(registry', id) = OtherEntries(registry, id)
        /\ IdsOf(activeExports') \ {id} = IdsOf(activeExports) \ {id}
        /\ \A n \in DbNames \ {RegistryDbName(id)} : db'[n] = db[n]

\* C34: removeExport(id) deletes the partition before it removes the registry entry:
\* when the deletion fails the registry entry and activeExports are unchanged, on
\* success id is in neither the registry nor activeExports, and the entries and
\* partitions of every other export are unchanged.
C34_RemoveDeletesFirst ==
    [][\A s \in ManageIds : StepOf(s, "removeExport") => RemoveStepInOrder(s)]_vars

\* C34 witness: a removal has reported success while another export stays registered
\* with its records, and another removal ended on a rejected deletion
C34_Witness ==
    /\ \E s \in ManageIds : /\ session.manage[s].op = "removeExport"
                            /\ session.manage[s].message = "removed"
                            /\ db[RegistryDbName(session.manage[s].exportId)] = EmptyDatabase
    /\ \E s \in ManageIds : /\ session.manage[s].op = "removeExport"
                            /\ session.manage[s].message = "error"
                            /\ Registered(registry, session.manage[s].exportId)
    /\ \E k \in 1..Len(registry) :
          db[RegistryDbName(registry[k].id)].conversations # <<>>

\* the export partitions that hold records and have no registry entry
Orphans ==
    {n \in DbNames \ {LegacyName} :
        /\ db[n].conversations # <<>> \/ db[n].messages # <<>>
        /\ \A k \in 1..Len(registry) : RegistryDbName(registry[k].id) # n}

\* a removeExport or clearData call has reported success
Succeeded(s) == session.manage[s].message \in {"removed", "cleared"}

\* C35: once clearData or removeExport has completed successfully, no partition
\* without a registry entry holds records, also when the operation ran while an
\* ingestion batch was suspended at an await.
C35_NoOrphanRecords ==
    (\E s \in ManageIds : Succeeded(s)) => Orphans = {}

\* no operation of the page is suspended: the resume is over, no batch is between two
\* of its awaits, and every removeExport and clearData call has returned
NothingSuspended ==
    /\ session.pc = "done"
    /\ \A c \in CallIds : ~InBatch(c)
    /\ \A s \in ManageIds : session.manage[s].pc \in {"idle", "done"}

\* C36: whenever no operation is suspended, the ids of activeExports are the ids of
\* the import registry, after any sequence of resumeExports, processFiles,
\* removeExport and clearData, also when a step of one of them fails.
C36_ActiveMatchesRegistry ==
    NothingSuspended => IdsOf(activeExports) = {registry[k].id : k \in 1..Len(registry)}

\* C36 witness: nothing is suspended after a batch that ended with an error, a
\* removal that succeeded and a call that ended in its catch, and an export is left
C36_Witness ==
    /\ NothingSuspended
    /\ calls[1].pc = "done" /\ calls[1].errors # <<>>
    /\ \E s \in ManageIds : session.manage[s].message = "removed"
    /\ \E s \in ManageIds : session.manage[s].message = "error"
    /\ registry # <<>>

(***************************************************************************)
(* Claims about overlapping selections                                      *)
(***************************************************************************)

\* the stored messages of a conversation of the list, as getConversationMessages
\* returns them
MessagesOfSelected(conversation) ==
    ConversationMessagesOf(db[GetDbName(conversation.exportId)], conversation.conversation_id)

\* both calls are over and each rendered the messages it fetched
OverlappedAndSettled ==
    \A i \in SelectIds : /\ session.selects[i].pc = "done"
                          /\ session.selects[i].outcome = "shown"

\* C38: when a second selectConversation is issued while the first awaits its fetch,
\* then once both have settled the pane shows the messages of currentConversation,
\* the conversation selected last, whichever fetch completes last.
C38_LatestSelectionShown ==
    OverlappedAndSettled =>
        /\ session.conversation = session.selects[2].conversation
        /\ session.content = "messages"
        /\ session.shown = MessagesOfSelected(session.conversation[1])

=============================================================================
